---- MODULE Spec2Model ----
(***************************************************************************)
(* The DeAI compute coordinator (compute-deai/src/lib.rs) as a state       *)
(* machine.  One action per public method of DeAICompute; every method is  *)
(* an operator from the contract state and the call's inputs to the state  *)
(* it has written when it returns or panics.  A panic aborts the NEAR      *)
(* transaction, so the action commits the written state only when the      *)
(* method returns.                                                         *)
(*                                                                         *)
(* Units.  TLC integers are 32 bit.  Time is counted in ticks of 5 minutes *)
(* (300_000_000_000 ns), the greatest common unit of every duration in the *)
(* contract; amounts of yoctoNEAR are scaled down, keeping their order.    *)
(***************************************************************************)
EXTENDS Integers, Sequences, FiniteSets, TLC

\* ---------------------------------------------------------------- constants
MIN_STAKE_YOCTO == 20
STORAGE_COST == 2
ONE_YOCTO == 1
HEARTBEAT_TIMEOUT == 1
MAX_REPUTATION == 1000
REPUTATION_GAIN == 10
REPUTATION_LOSS == 50
MAX_TASK_TIMEOUT == 12
INITIAL_REPUTATION == 100
INITIAL_MAX_TASKS_PER_NODE == 5
MAX_TASKS_PER_NODE_LIMIT == 100
MIN_TIMEOUT_DURATION == 1
MAX_TIMEOUT_DURATION == 288
SLASH_DIVISOR == 10
MAX_SPECS_LEN == 500
MAX_ENDPOINT_LEN == 200
MAX_DESCRIPTION_LEN == 1000
MAX_PROOF_HASH_LEN == 64
MAX_OUTPUT_LEN == 10000
AGENT_PROOF_HASH_LEN == 64
AGENT_MAX_OUTPUT_LEN == 1000000
AGENT_RESULT_DEPOSIT == 0
HEARTBEAT_INTERVAL_SECONDS == 60
HEARTBEAT_MAX_RETRIES == 3
DEFAULT_MAX_CONCURRENT_TASKS == 2

\* ------------------------------------------------------------------- bounds
MaxTasks == 2
MaxTime == 13
MaxSeasonedTasks == 93
MaxOutstanding == 3
MaxPriorityTasks == 3
MaxSelectionTasks == 3
I64Bits == 20
MaxChecks == 4
MaxSixRequests == 101
MaxGatewayRequests == 2
MaxBeats == 3
MaxRuns == 2

\* ------------------------------------------------------------ Option<T>
None == <<>>
Some(x) == <<x>>
IsSome(o) == o # None
Unwrap(o) == o[1]

\* ------------------------------------------------------------ input domains
\* Strings that the contract only measures and stores are modelled by their
\* length.  registration_time, created_at, completed_at and log lines, which the
\* contract writes and never reads, are left out of the records.
owner_id == "owner"
Accounts == {"owner", "alice", "bob", "carol", "dave"}
Deposits == {0, ONE_YOCTO, STORAGE_COST, 1 + STORAGE_COST, 2 + STORAGE_COST,
             MIN_STAKE_YOCTO - 1, MIN_STAKE_YOCTO}
PublicIps == {"", "10.0.0.1", "10.0.0.2"}
SpecsLens == {8, MAX_SPECS_LEN, MAX_SPECS_LEN + 1}
EndpointLens == {0, 25, MAX_ENDPOINT_LEN, MAX_ENDPOINT_LEN + 1}
DescriptionLens == {0, 9, MAX_DESCRIPTION_LEN, MAX_DESCRIPTION_LEN + 1}
ComputeCosts == {0, 1, 2}
ProofHashLens == {0, MAX_PROOF_HASH_LEN, MAX_PROOF_HASH_LEN + 1}
OutputLens == {0, 2, MAX_OUTPUT_LEN, MAX_OUTPUT_LEN + 1}
TaskStatus == {"Pending", "Assigned", "InProgress", "Completed", "Failed", "TimedOut", "Disputed"}
TaskPriority == {"Low", "Normal", "High", "Urgent"}
Priorities == {None} \cup {Some(p) : p \in TaskPriority}
TaskIds == 0..MaxTasks
TransferAmounts == {0, 1, 2}
MinStakes == {0, MIN_STAKE_YOCTO - 1, MIN_STAKE_YOCTO}
MaxTasksValues == {0, 1, INITIAL_MAX_TASKS_PER_NODE, MAX_TASKS_PER_NODE_LIMIT,
                   MAX_TASKS_PER_NODE_LIMIT + 1}
TimeoutValues == {MIN_TIMEOUT_DURATION - 1, MIN_TIMEOUT_DURATION, MAX_TASK_TIMEOUT,
                  MAX_TIMEOUT_DURATION, MAX_TIMEOUT_DURATION + 1}
WithdrawAmounts == {5, 6}
AccountBalances == {5}

\* The instants the clock visits: tick 0 and the ticks from the first deadline
\* on, so that a deadline is met on its tick and missed on the next.
TimePoints == {t \in 0..MaxTime : t = 0 \/ t >= MAX_TASK_TIMEOUT}

\* The calls the environment makes, method by method: the well-formed ones and
\* some malformed ones.  (The properties quantify over the domains above.)
RegisterCalls ==
    LET ok == [caller |-> "alice", deposit |-> MIN_STAKE_YOCTO, public_ip |-> "10.0.0.1",
               gpu_specs |-> 8, cpu_specs |-> 8, api_endpoint |-> 25]
    IN  { ok,
          [ok EXCEPT !.caller = "bob", !.public_ip = "10.0.0.2",
                     !.deposit = MIN_STAKE_YOCTO - 1],
          [ok EXCEPT !.public_ip = ""] }
HeartbeatCallers == {"alice", "bob", "carol"}
DeactivateCalls ==
    { [caller |-> "alice", deposit |-> ONE_YOCTO],
      [caller |-> "bob", deposit |-> ONE_YOCTO],
      [caller |-> "alice", deposit |-> 0] }
SubmitCalls ==
    LET ok == [caller |-> "carol", description |-> 9, cost |-> 1,
               deposit |-> 1 + STORAGE_COST, priority |-> None]
    IN  { ok,
          [ok EXCEPT !.cost = 2, !.deposit = 2 + STORAGE_COST, !.priority = Some("Urgent")],
          [ok EXCEPT !.deposit = STORAGE_COST] }
ResultCalls ==
    { [caller |-> a, deposit |-> ONE_YOCTO, task_id |-> id,
       proof_hash |-> MAX_PROOF_HASH_LEN, output |-> 2] : a \in {"alice", "bob"}, id \in TaskIds }
    \cup { [caller |-> "alice", deposit |-> 0, task_id |-> 0,
            proof_hash |-> MAX_PROOF_HASH_LEN, output |-> 2] }
TimeoutCalls ==
    { [caller |-> "carol", deposit |-> ONE_YOCTO, task_id |-> id] : id \in TaskIds }
    \cup { [caller |-> "bob", deposit |-> 0, task_id |-> 0] }
TransferCalls ==
    { [caller |-> "alice", deposit |-> ONE_YOCTO, receiver_id |-> "carol", amount |-> 1],
      [caller |-> "alice", deposit |-> ONE_YOCTO, receiver_id |-> "dave", amount |-> 1],
      [caller |-> "alice", deposit |-> 0, receiver_id |-> "carol", amount |-> 1] }
AdminEnvs ==
    { [caller |-> "owner", deposit |-> ONE_YOCTO],
      [caller |-> "alice", deposit |-> ONE_YOCTO],
      [caller |-> "owner", deposit |-> 0] }
TriedMinStakes == {0, MIN_STAKE_YOCTO}
TriedMaxTasks == {0, INITIAL_MAX_TASKS_PER_NODE}
TriedTimeouts == {MIN_TIMEOUT_DURATION - 1, MIN_TIMEOUT_DURATION}

VARIABLES
    contract,   \* the DeAICompute struct
    now,        \* env::block_timestamp()
    agent,      \* the node agent: its TaskProcessor and its polling loop
    gateway     \* the API gateway: its clock, its stores and its last exchange

vars == <<contract, now, agent, gateway>>

\* ------------------------------------------------------------ call outcomes
\* st is the state as written so far; promise the transfer scheduled, if any.
Return(s, p) == [err |-> "ok", st |-> s, promise |-> p]
Panic(msg, s) == [err |-> msg, st |-> s, promise |-> None]
Transfer(to, amount) == Some([receiver |-> to, amount |-> amount])

\* The call's environment: predecessor_account_id, attached_deposit,
\* block_timestamp and the contract account's own NEAR balance.
Env(caller, deposit, t, balance) ==
    [predecessor |-> caller, deposit |-> deposit, now |-> t, account_balance |-> balance]

\* ------------------------------------------------------------ token ledger
\* FungibleToken of near-contract-standards: accounts is the map of the
\* registered accounts to their balances.
internal_register_account(token, a) ==
    [token EXCEPT !.accounts = [x \in DOMAIN token.accounts \cup {a} |->
                                   IF x = a THEN 0 ELSE token.accounts[x]]]

internal_deposit(token, a, amount) ==
    [token EXCEPT !.accounts[a] = @ + amount, !.total_supply = @ + amount]

internal_withdraw(token, a, amount) ==
    [token EXCEPT !.accounts[a] = @ - amount, !.total_supply = @ - amount]

\* FungibleTokenCore::ft_transfer after the deposit check: every refusal comes
\* before the balances are touched.
internal_transfer(s, sender_id, receiver_id, amount) ==
    IF sender_id = receiver_id THEN Panic("Sender and receiver should be different", s)
    ELSE IF ~(amount > 0) THEN Panic("The amount should be a positive number", s)
    ELSE IF sender_id \notin DOMAIN s.token.accounts
         THEN Panic("The account is not registered", s)
    ELSE IF receiver_id \notin DOMAIN s.token.accounts
         THEN Panic("The account is not registered", s)
    ELSE IF s.token.accounts[sender_id] < amount
         THEN Panic("The account doesn't have enough balance", s)
    ELSE Return([s EXCEPT !.token = internal_deposit(
                                        internal_withdraw(@, sender_id, amount),
                                        receiver_id, amount)], None)

\* ---------------------------------------------------------------- DeAICompute::new
new(owner) ==
    [ nodes |-> << >>,
      nodes_keys |-> << >>,
      active_tasks |-> << >>,
      completed_tasks |-> << >>,
      pending_tasks |-> << >>,
      task_counter |-> 0,
      token |-> internal_register_account([accounts |-> << >>, total_supply |-> 0], owner),
      min_stake |-> MIN_STAKE_YOCTO,
      total_rewards_distributed |-> 0,
      owner_id |-> owner,
      paused |-> FALSE,
      max_tasks_per_node |-> INITIAL_MAX_TASKS_PER_NODE,
      task_timeout_duration |-> MAX_TASK_TIMEOUT ]

\* UnorderedMap::insert: a new key goes to the end of the key vector.
MapInsert(m, k, v) == [x \in DOMAIN m \cup {k} |-> IF x = k THEN v ELSE m[x]]
MapRemove(m, k) == [x \in DOMAIN m \ {k} |-> m[x]]

\* ------------------------------------------------------------ register_node
\* Mutant: only the records of active nodes are compared.
ip_in_use_by_active(s, public_ip) ==
    \E k \in DOMAIN s.nodes : s.nodes[k].is_active /\ s.nodes[k].public_ip = public_ip

\* The loop over self.nodes.values(): every record counts, active or not.
ip_in_use(s, public_ip) ==
    \E k \in DOMAIN s.nodes : s.nodes[k].public_ip = public_ip

register_node(s, env, public_ip, gpu_specs, cpu_specs, api_endpoint) ==
    LET account_id == env.predecessor
        stake == env.deposit
    IN  IF s.paused THEN Panic("Contract is paused", s)
        ELSE IF ~(stake >= s.min_stake) THEN Panic("Insufficient stake. Minimum: {} yoctoNEAR", s)
        ELSE IF account_id \in DOMAIN s.nodes THEN Panic("Node already registered", s)
        ELSE IF public_ip = "" THEN Panic("Public IP cannot be empty", s)
        ELSE IF api_endpoint = 0 THEN Panic("API endpoint cannot be empty", s)
        ELSE IF ~(gpu_specs <= MAX_SPECS_LEN) THEN Panic("GPU specs too long", s)
        ELSE IF ~(cpu_specs <= MAX_SPECS_LEN) THEN Panic("CPU specs too long", s)
        ELSE IF ~(api_endpoint <= MAX_ENDPOINT_LEN) THEN Panic("API endpoint too long", s)
        ELSE IF ip_in_use(s, public_ip)
             THEN Panic("IP address already registered", s)
        ELSE
            LET node_info == [ account_id |-> account_id,
                               stake |-> stake,
                               public_ip |-> public_ip,
                               gpu_specs |-> gpu_specs,
                               cpu_specs |-> cpu_specs,
                               api_endpoint |-> api_endpoint,
                               is_active |-> TRUE,
                               last_heartbeat |-> env.now,
                               total_tasks_completed |-> 0,
                               reputation_score |-> INITIAL_REPUTATION,
                               slashed_amount |-> 0 ]
                s1 == [s EXCEPT !.nodes = MapInsert(@, account_id, node_info),
                                !.nodes_keys = Append(@, account_id)]
                s2 == IF account_id \notin DOMAIN s1.token.accounts
                      THEN [s1 EXCEPT !.token = internal_register_account(@, account_id)]
                      ELSE s1
            IN  Return(s2, None)

\* ------------------------------------------------------------ heartbeat
\* Mutant: the node record is written before the pause check.
heartbeat_writes_first(s, env) ==
    LET account_id == env.predecessor
        s1 == IF account_id \in DOMAIN s.nodes
              THEN [s EXCEPT !.nodes[account_id].last_heartbeat = env.now,
                             !.nodes[account_id].is_active = TRUE]
              ELSE s
    IN  IF s.paused THEN Panic("Contract is paused", s1)
        ELSE IF account_id \notin DOMAIN s.nodes THEN Panic("Node not registered", s)
        ELSE Return(s1, None)

\* Mutant: the node is marked active and its last_heartbeat left as it was.
heartbeat_without_time(s, env) ==
    LET account_id == env.predecessor
    IN  IF s.paused THEN Panic("Contract is paused", s)
        ELSE IF account_id \notin DOMAIN s.nodes THEN Panic("Node not registered", s)
        ELSE Return([s EXCEPT !.nodes[account_id].is_active = TRUE], None)

heartbeat(s, env) ==
    LET account_id == env.predecessor
    IN  IF s.paused THEN Panic("Contract is paused", s)
        ELSE IF account_id \notin DOMAIN s.nodes THEN Panic("Node not registered", s)
        ELSE
            LET node == [s.nodes[account_id] EXCEPT !.last_heartbeat = env.now,
                                                     !.is_active = TRUE]
            IN  Return([s EXCEPT !.nodes[account_id] = node], None)


\* ------------------------------------------------------------ scheduler
\* Mutant: the values of High and Urgent are exchanged.
priority_value_exchanged(priority) ==
    CASE priority = "Low" -> 1
      [] priority = "Normal" -> 2
      [] priority = "High" -> 4
      [] priority = "Urgent" -> 3

priority_value(priority) ==
    CASE priority = "Low" -> 1
      [] priority = "Normal" -> 2
      [] priority = "High" -> 3
      [] priority = "Urgent" -> 4

\* Mutant: a task of any status counts as active.
any_status_is_active(status) == TRUE

IsActiveStatus(status) == status \in {"Assigned", "InProgress"}

get_node_active_task_count(s, node_id) ==
    Cardinality({id \in DOMAIN s.active_tasks :
                    /\ s.active_tasks[id].assignee = Some(node_id)
                    /\ IsActiveStatus(s.active_tasks[id].status)})

\* Mutant: only tasks in progress count, assigned ones do not.
node_has_task_in_progress(s, node_id) ==
    \E id \in DOMAIN s.active_tasks :
        /\ s.active_tasks[id].assignee = Some(node_id)
        /\ s.active_tasks[id].status = "InProgress"

node_has_active_task(s, node_id) == get_node_active_task_count(s, node_id) > 0

IsLive(node, current_time) ==
    node.is_active /\ current_time - node.last_heartbeat < HEARTBEAT_TIMEOUT

\* The loop of get_available_node over the nodes in their map order, from
\* position i on, with the best node found so far.
RECURSIVE scan_nodes(_, _, _, _, _)
scan_nodes(s, current_time, i, best_node, best_reputation) ==
    IF i > Len(s.nodes_keys) THEN best_node
    ELSE
        LET account_id == s.nodes_keys[i]
            node == s.nodes[account_id]
        IN  IF /\ IsLive(node, current_time)
               /\ node.reputation_score > best_reputation
               /\ get_node_active_task_count(s, account_id) < s.max_tasks_per_node
            THEN scan_nodes(s, current_time, i + 1, Some(account_id), node.reputation_score)
            ELSE scan_nodes(s, current_time, i + 1, best_node, best_reputation)

\* Mutant: the first node of the map is taken, whatever its state.
get_available_node_first(s, current_time) ==
    IF s.nodes_keys = <<>> THEN None ELSE Some(s.nodes_keys[1])

get_available_node(s, current_time) == scan_nodes(s, current_time, 1, None, 0)

\* The loop of try_assign_next_task over pending_tasks from position i on.
\* Positions are counted from 1; best_task_index is None or Some(position).
RECURSIVE scan_pending(_, _, _, _)
scan_pending(s, i, best_task_index, best_priority) ==
    IF i > Len(s.pending_tasks) THEN best_task_index
    ELSE
        LET task_id == s.pending_tasks[i]
        IN  IF /\ task_id \in DOMAIN s.active_tasks
               /\ s.active_tasks[task_id].status = "Pending"
               /\ \/ best_task_index = None
                  \/ priority_value(s.active_tasks[task_id].priority)
                        > priority_value(best_priority)
            THEN scan_pending(s, i + 1, Some(i), s.active_tasks[task_id].priority)
            ELSE scan_pending(s, i + 1, best_task_index, best_priority)

\* Mutant: the assigned task's ID stays in the vector.
swap_remove_skipped(v, i) == v

\* Vector::swap_remove: the last element takes the place of the removed one.
swap_remove(v, i) ==
    LET n == Len(v)
    IN  [k \in 1..(n - 1) |-> IF k = i THEN v[n] ELSE v[k]]

\* Mutant: the deadline is the assignment time, the duration not added.
assign_without_duration(task, node_id, current_time, duration) ==
    [task EXCEPT !.assignee = Some(node_id),
                 !.status = "Assigned",
                 !.assigned_at = Some(current_time),
                 !.timeout_at = Some(current_time)]

assign(task, node_id, current_time, duration) ==
    [task EXCEPT !.assignee = Some(node_id),
                 !.status = "Assigned",
                 !.assigned_at = Some(current_time),
                 !.timeout_at = Some(current_time + duration)]

\* Mutant: the dispatch does nothing.
try_assign_next_task_idle(s, current_time) == s

try_assign_next_task(s, current_time) ==
    LET available_node == get_available_node(s, current_time)
    IN  IF available_node = None THEN s
        ELSE
            LET best_task_index == scan_pending(s, 1, None, "Low")
            IN  IF best_task_index = None THEN s
                ELSE
                    LET index == Unwrap(best_task_index)
                        task_id == s.pending_tasks[index]
                        s1 == [s EXCEPT !.pending_tasks = swap_remove(@, index)]
                    IN  IF task_id \in DOMAIN s1.active_tasks
                        THEN [s1 EXCEPT !.active_tasks[task_id] =
                                 assign(@, Unwrap(available_node), current_time,
                                        s.task_timeout_duration)]
                        ELSE s1

\* ------------------------------------------------------------ deactivate_node
deactivate_node(s, env) ==
    LET account_id == env.predecessor
    IN  IF env.deposit # ONE_YOCTO THEN Panic("Exactly 1 yoctoNEAR required for security", s)
        ELSE IF account_id \notin DOMAIN s.nodes THEN Panic("Node not registered", s)
        ELSE IF ~s.nodes[account_id].is_active THEN Panic("Node already inactive", s)
        ELSE IF node_has_active_task(s, account_id)
             THEN Panic("Cannot deactivate node with active tasks", s)
        ELSE
            LET node == s.nodes[account_id]
                return_amount == IF node.stake >= node.slashed_amount
                                 THEN node.stake - node.slashed_amount ELSE 0
                promise == IF return_amount > 0 THEN Transfer(account_id, return_amount)
                           ELSE None
            IN  Return([s EXCEPT !.nodes[account_id].is_active = FALSE], promise)

\* ------------------------------------------------------------ submit_task
\* priority is None or Some(p): Option<TaskPriority>.
submit_task(s, env, description, estimated_compute_cost, priority) ==
    LET requester == env.predecessor
        fee == env.deposit
        compute_cost == estimated_compute_cost
    IN  IF s.paused THEN Panic("Contract is paused", s)
        ELSE IF ~(fee >= compute_cost + STORAGE_COST)
             THEN Panic("Insufficient payment for compute cost and storage", s)
        ELSE IF description = 0 THEN Panic("Task description cannot be empty", s)
        ELSE IF ~(description <= MAX_DESCRIPTION_LEN) THEN Panic("Task description too long", s)
        ELSE IF ~(compute_cost > 0) THEN Panic("Compute cost must be positive", s)
        ELSE
            LET s1 == IF requester \notin DOMAIN s.token.accounts
                      THEN [s EXCEPT !.token = internal_register_account(@, requester)]
                      ELSE s
                task == [ id |-> s.task_counter,
                          description |-> description,
                          assignee |-> None,
                          status |-> "Pending",
                          output |-> None,
                          proof_hash |-> None,
                          assigned_at |-> None,
                          timeout_at |-> None,
                          reward_amount |-> compute_cost,
                          requester |-> requester,
                          priority |-> IF priority = None THEN "Normal" ELSE Unwrap(priority) ]
                s2 == [s1 EXCEPT !.active_tasks = MapInsert(@, s.task_counter, task),
                                 !.pending_tasks = Append(@, s.task_counter),
                                 !.task_counter = @ + 1]
            IN  Return(try_assign_next_task(s2, env.now), None)

\* ------------------------------------------------------------ submit_result
Min(a, b) == IF a < b THEN a ELSE b
saturating_sub(a, b) == IF a >= b THEN a - b ELSE 0

\* Mutant: the gain is added without the cap.
reputation_after_success_uncapped(reputation_score) ==
    reputation_score + REPUTATION_GAIN

reputation_after_success(reputation_score) ==
    Min(MAX_REPUTATION, reputation_score + REPUTATION_GAIN)

\* Mutant: the deadline is not checked.
result_never_too_late(task, current_time) == FALSE

\* submit_result refuses a result that arrives after the task's deadline.
result_too_late(task, current_time) ==
    IsSome(task.timeout_at) /\ ~(current_time <= Unwrap(task.timeout_at))

\* Mutant: the deadline instant itself counts as passed.
timeout_too_early_exclusive(task, current_time) ==
    IsSome(task.timeout_at) /\ ~(current_time >= Unwrap(task.timeout_at))

\* timeout_task refuses a task whose deadline has not passed.
timeout_too_early(task, current_time) ==
    IsSome(task.timeout_at) /\ ~(current_time > Unwrap(task.timeout_at))

\* Mutant: the reward is deposited and the running total forgotten.
mint_reward_untallied(s, account_id, reward_amount) ==
    [s EXCEPT !.token = internal_deposit(@, account_id, reward_amount)]

\* Mint reward tokens: the ledger deposit and the running total.
mint_reward(s, account_id, reward_amount) ==
    [s EXCEPT !.token = internal_deposit(@, account_id, reward_amount),
              !.total_rewards_distributed = @ + reward_amount]

\* Mutant: the task is archived and left in the active table.
archive_keeps_active(s, task_id, task) ==
    [s EXCEPT !.completed_tasks = MapInsert(@, task_id, task)]

\* Move a task from the active table to the completed archive.
archive(s, task_id, task) ==
    [s EXCEPT !.active_tasks = MapRemove(@, task_id),
              !.completed_tasks = MapInsert(@, task_id, task)]

submit_result(s, env, task_id, proof_hash, output) ==
    LET account_id == env.predecessor
    IN  IF env.deposit # ONE_YOCTO THEN Panic("Exactly 1 yoctoNEAR required for security", s)
        ELSE IF task_id \notin DOMAIN s.active_tasks THEN Panic("Task not found", s)
        ELSE
        LET task == s.active_tasks[task_id]
        IN  IF task.assignee # Some(account_id) THEN Panic("Not assigned to this node", s)
            ELSE IF ~IsActiveStatus(task.status) THEN Panic("Task not in assignable state", s)
            ELSE IF proof_hash = 0 THEN Panic("Proof hash cannot be empty", s)
            ELSE IF output = 0 THEN Panic("Output cannot be empty", s)
            ELSE IF ~(proof_hash <= MAX_PROOF_HASH_LEN) THEN Panic("Proof hash too long", s)
            ELSE IF ~(output <= MAX_OUTPUT_LEN) THEN Panic("Output too long", s)
            ELSE IF result_too_late(task, env.now) THEN Panic("Task has timed out", s)
            ELSE IF account_id \notin DOMAIN s.nodes
                 THEN Panic("called Option::unwrap() on a None value", s)
            ELSE
                LET done == [task EXCEPT !.status = "Completed",
                                         !.output = Some(output),
                                         !.proof_hash = Some(proof_hash)]
                    s1 == [s EXCEPT !.nodes[account_id].total_tasks_completed = @ + 1,
                                    !.nodes[account_id].reputation_score =
                                        reputation_after_success(@)]
                IN  IF account_id \notin DOMAIN s1.token.accounts
                    THEN Panic("The account is not registered", s1)
                    ELSE
                        LET s2 == mint_reward(s1, account_id, task.reward_amount)
                            s3 == archive(s2, task_id, done)
                        IN  Return(try_assign_next_task(s3, env.now), None)

\* ------------------------------------------------------------ timeout_task
\* Mutant: the whole stake is slashed, not a tenth of it.
slash_whole_stake(node) ==
    [node EXCEPT !.reputation_score = saturating_sub(@, REPUTATION_LOSS),
                 !.slashed_amount = @ + node.stake]

slash(node) ==
    [node EXCEPT !.reputation_score = saturating_sub(@, REPUTATION_LOSS),
                 !.slashed_amount = @ + (node.stake \div SLASH_DIVISOR)]

\* Mutant: the dispatch runs once more after the task is archived.
timeout_task_dispatching(s, env, task_id) ==
    IF env.deposit # ONE_YOCTO THEN Panic("Exactly 1 yoctoNEAR required for security", s)
    ELSE IF task_id \notin DOMAIN s.active_tasks THEN Panic("Task not found", s)
    ELSE
    LET task == s.active_tasks[task_id]
    IN  IF ~IsActiveStatus(task.status) THEN Panic("Task not active", s)
        ELSE IF timeout_too_early(task, env.now) THEN Panic("Task has not timed out yet", s)
        ELSE
            LET s1 == IF IsSome(task.assignee) /\ Unwrap(task.assignee) \in DOMAIN s.nodes
                      THEN [s EXCEPT !.nodes[Unwrap(task.assignee)] = slash(@)]
                      ELSE s
                timed_out == [task EXCEPT !.status = "TimedOut"]
                s2 == archive(s1, task_id, timed_out)
            IN  Return(try_assign_next_task(s2, env.now),
                       Transfer(task.requester, task.reward_amount))

timeout_task(s, env, task_id) ==
    IF env.deposit # ONE_YOCTO THEN Panic("Exactly 1 yoctoNEAR required for security", s)
    ELSE IF task_id \notin DOMAIN s.active_tasks THEN Panic("Task not found", s)
    ELSE
    LET task == s.active_tasks[task_id]
    IN  IF ~IsActiveStatus(task.status) THEN Panic("Task not active", s)
        ELSE IF timeout_too_early(task, env.now) THEN Panic("Task has not timed out yet", s)
        ELSE
            LET s1 == IF IsSome(task.assignee) /\ Unwrap(task.assignee) \in DOMAIN s.nodes
                      THEN [s EXCEPT !.nodes[Unwrap(task.assignee)] = slash(@)]
                      ELSE s
                timed_out == [task EXCEPT !.status = "TimedOut"]
                s2 == archive(s1, task_id, timed_out)
            IN  Return(s2, Transfer(task.requester, task.reward_amount))

\* ------------------------------------------------------------ ft_transfer
ft_transfer(s, env, receiver_id, amount) ==
    IF env.deposit # ONE_YOCTO THEN Panic("Exactly 1 yoctoNEAR required for security", s)
    ELSE internal_transfer(s, env.predecessor, receiver_id, amount)

ft_balance_of(s, account_id) ==
    IF account_id \in DOMAIN s.token.accounts THEN s.token.accounts[account_id] ELSE 0

ft_total_supply(s) == s.token.total_supply

\* ------------------------------------------------------------ admin
\* Mutant: the deposit is checked and the caller is not.
admin_guard_any_caller(s, env) ==
    IF env.deposit # ONE_YOCTO THEN "Exactly 1 yoctoNEAR required for security"
    ELSE "ok"

\* assert_owner and assert_one_yocto, in the order every admin method runs them.
admin_guard(s, env) ==
    IF env.predecessor # s.owner_id THEN "Only owner can call this method"
    ELSE IF env.deposit # ONE_YOCTO THEN "Exactly 1 yoctoNEAR required for security"
    ELSE "ok"

update_min_stake(s, env, new_min_stake) ==
    IF admin_guard(s, env) # "ok" THEN Panic(admin_guard(s, env), s)
    ELSE IF ~(new_min_stake > 0) THEN Panic("Min stake must be positive", s)
    ELSE Return([s EXCEPT !.min_stake = new_min_stake], None)

pause_contract(s, env) ==
    IF admin_guard(s, env) # "ok" THEN Panic(admin_guard(s, env), s)
    ELSE IF s.paused THEN Panic("Contract already paused", s)
    ELSE Return([s EXCEPT !.paused = TRUE], None)

unpause_contract(s, env) ==
    IF admin_guard(s, env) # "ok" THEN Panic(admin_guard(s, env), s)
    ELSE IF ~s.paused THEN Panic("Contract not paused", s)
    ELSE Return([s EXCEPT !.paused = FALSE], None)

update_max_tasks_per_node(s, env, max_tasks) ==
    IF admin_guard(s, env) # "ok" THEN Panic(admin_guard(s, env), s)
    ELSE IF ~(max_tasks > 0 /\ max_tasks <= MAX_TASKS_PER_NODE_LIMIT)
         THEN Panic("Invalid max tasks per node", s)
    ELSE Return([s EXCEPT !.max_tasks_per_node = max_tasks], None)

update_task_timeout(s, env, timeout_duration) ==
    IF admin_guard(s, env) # "ok" THEN Panic(admin_guard(s, env), s)
    ELSE IF ~(timeout_duration >= MIN_TIMEOUT_DURATION)
         THEN Panic("Timeout too short (min 5 minutes)", s)
    ELSE IF ~(timeout_duration <= MAX_TIMEOUT_DURATION)
         THEN Panic("Timeout too long (max 24 hours)", s)
    ELSE Return([s EXCEPT !.task_timeout_duration = timeout_duration], None)

emergency_withdraw(s, env, amount) ==
    IF admin_guard(s, env) # "ok" THEN Panic(admin_guard(s, env), s)
    ELSE IF ~s.paused THEN Panic("Contract must be paused for emergency withdrawal", s)
    ELSE IF ~(amount <= env.account_balance) THEN Panic("Insufficient contract balance", s)
    ELSE Return(s, Transfer(s.owner_id, amount))

\* ------------------------------------------------------------ the node agent
\* node-client: the TaskProcessor, the NearClient calls and the polling loop
\* of the NodeDaemon.  Strings are represented by their length, with a flag
\* where the agent looks at their content.

\* TaskProcessor::validate_execution_result, on an execution result
\* [proof_hash, hex, output, json]: hex says that every character of the proof
\* hash is a hexadecimal digit, json that the output parses as JSON.
validate_execution_result(result) ==
    IF result.proof_hash = 0 THEN "Proof hash is empty"
    ELSE IF result.proof_hash # AGENT_PROOF_HASH_LEN THEN "Invalid proof hash length: {}"
    ELSE IF ~result.hex THEN "Proof hash contains invalid characters"
    ELSE IF result.output = 0 THEN "Output is empty"
    ELSE IF ~result.json THEN "Output is not valid JSON"
    ELSE IF result.output > AGENT_MAX_OUTPUT_LEN THEN "Output too large: {} bytes (max 1MB)"
    ELSE "ok"

\* NearClient::submit_result: the function call the agent signs as signer and
\* sends to the coordinator, with the deposit it attaches.
NearClient_submit_result(s, signer, t, task_id, proof_hash, output) ==
    submit_result(s, Env(signer, AGENT_RESULT_DEPOSIT, t, 0), task_id, proof_hash, output)

\* serde_json::from_value::<TaskInfo>: TaskInfo declares reward_amount as a
\* String, so an entry whose reward_amount is a JSON number does not decode.
TaskInfo_from_value(value) ==
    IF value.reward_amount = "string"
    THEN Some([id |-> value.id, status |-> value.status, description |-> value.description])
    ELSE None

\* NearClient::get_assigned_tasks on the response of the view call: the list
\* decodes when each of its entries does.
NearClient_get_assigned_tasks(response) ==
    IF \A i \in 1..Len(response) : IsSome(TaskInfo_from_value(response[i]))
    THEN Some([i \in 1..Len(response) |-> Unwrap(TaskInfo_from_value(response[i]))])
    ELSE None

\* TaskProcessor::validate_task: the description is JSON with the fields and
\* the task type the processor supports.
validate_task(task) == task.description = "valid"

\* Mutant: a permit is handed out whether or not one is left.
permit_always_available(available_permits) == TRUE

\* Semaphore::acquire in execute_task returns once a permit is available.
permit_available(available_permits) == available_permits > 0

\* TaskProcessor::get_current_load.
get_current_load(a) == a.max_concurrent_tasks - a.available_permits

\* TaskProcessor::is_at_capacity.
is_at_capacity(a) == a.available_permits = 0

\* NodeDaemon::new with TaskProcessor::new: the semaphore starts with
\* max_concurrent_tasks permits and the polling loop waits for its first tick.
NodeDaemon_new(max_concurrent_tasks) ==
    [ max_concurrent_tasks |-> max_concurrent_tasks,
      available_permits    |-> max_concurrent_tasks,
      locked               |-> FALSE,
      pc                   |-> "tick",
      tasks                |-> <<>>,
      result               |-> None,
      processed_count      |-> 0 ]

\* ------------------------------------------------------------ the agent: heartbeat
\* HeartbeatManager::new, and the builder that changes max_retries.
HeartbeatManager_new ==
    [interval_seconds |-> HEARTBEAT_INTERVAL_SECONDS, max_retries |-> HEARTBEAT_MAX_RETRIES]
with_max_retries(manager, retries) == [manager EXCEPT !.max_retries = retries]

\* HeartbeatManager::start up to its loop: the locals of the loop. pc is the
\* position in the loop body ("done" would be the return of start); slept is
\* the length of the last cool-down; beats and cooldowns count, up to
\* MaxBeats, the heartbeats that succeeded and the cool-downs taken; rpc_up
\* says that the heartbeat calls succeed from now on.
HeartbeatManager_start(manager) ==
    [ manager              |-> manager,
      pc                   |-> "tick",
      consecutive_failures |-> 0,
      slept                |-> 0,
      beats                |-> 0,
      cooldowns            |-> 0,
      rpc_up               |-> FALSE ]

\* The Ok arm of the match on send_heartbeat.
on_heartbeat_ok(loop) ==
    [loop EXCEPT !.consecutive_failures = 0,
                 !.beats = Min(@ + 1, MaxBeats),
                 !.pc = "tick"]

\* Mutant: the failures are counted up to max_retries and the loop never
\* cools down.
on_heartbeat_err_counting(loop) ==
    [loop EXCEPT !.consecutive_failures = Min(@ + 1, loop.manager.max_retries),
                 !.pc = "tick"]

\* The Err arm up to the sleep: the failure is counted, and the loop cools
\* down when the count has reached max_retries.
on_heartbeat_err(loop) ==
    LET consecutive_failures == loop.consecutive_failures + 1
    IN  [loop EXCEPT !.consecutive_failures = consecutive_failures,
                     !.pc = IF consecutive_failures >= loop.manager.max_retries
                            THEN "cooldown" ELSE "tick"]

\* The Err arm from the sleep on: 2 x interval, then the count is reset.
after_cooldown(loop) ==
    [loop EXCEPT !.slept = loop.manager.interval_seconds * 2,
                 !.cooldowns = Min(@ + 1, MaxBeats),
                 !.consecutive_failures = 0,
                 !.pc = "tick"]

\* ------------------------------------------------------------ the agent: health
\* HealthStatus::is_healthy. network_latency is a Duration, here in
\* milliseconds.
is_healthy(status) ==
    /\ status.is_registered
    /\ status.is_active
    /\ status.last_heartbeat_age_seconds < 300
    /\ status.network_latency < 10 * 1000

\* HealthStatus::get_issues: the issues in the order they are pushed, each
\* by its kind.
get_issues(status) ==
    (IF ~status.is_registered THEN <<"NotRegistered">> ELSE <<>>)
    \o (IF ~status.is_active THEN <<"Inactive">> ELSE <<>>)
    \o (IF status.last_heartbeat_age_seconds > 300 THEN <<"StaleHeartbeat">> ELSE <<>>)
    \o (IF status.network_latency > 10 * 1000 THEN <<"HighLatency">> ELSE <<>>)
    \o (IF status.reputation_score < 50 THEN <<"LowReputation">> ELSE <<>>)

\* ------------------------------------------------------------ the gateway: rate limiter
\* Maps are functions; Put writes one entry and EmptyMap has none.
EmptyMap == [k \in {} |-> k]
Put(f, key, value) == [k \in DOMAIN f \cup {key} |-> IF k = key THEN value ELSE f[k]]
Min2(a, b) == IF a <= b THEN a ELSE b

\* RateLimiter::get_ip_rate_limit_config
get_ip_rate_limit_config ==
    [ requests_per_minute |-> 100,
      requests_per_hour   |-> 2000,
      requests_per_day    |-> 20000,
      burst_limit         |-> 20 ]

\* RateLimiter::get_user_tier_config over UserTier::free, pro, enterprise and
\* RateLimitConfig::default.
get_user_tier_config(tier) ==
    CASE tier = "free" ->
             [ requests_per_minute |-> 30, requests_per_hour |-> 500,
               requests_per_day |-> 2000, burst_limit |-> 5 ]
      [] tier = "pro" ->
             [ requests_per_minute |-> 120, requests_per_hour |-> 5000,
               requests_per_day |-> 50000, burst_limit |-> 20 ]
      [] tier = "enterprise" ->
             [ requests_per_minute |-> 600, requests_per_hour |-> 20000,
               requests_per_day |-> 200000, burst_limit |-> 50 ]
      [] OTHER ->
             [ requests_per_minute |-> 60, requests_per_hour |-> 1000,
               requests_per_day |-> 10000, burst_limit |-> 10 ]

\* The key-value store as the limiter meets it at second t: a key whose time
\* to live has run out is gone.
redis_at(conn, t) ==
    LET live(store) == { k \in DOMAIN store : t < store[k].expire_at }
    IN  [ counters |-> [k \in live(conn.counters) |-> conn.counters[k]],
          zsets    |-> [k \in live(conn.zsets) |-> conn.zsets[k]] ]

\* Mutant: a call is limited only from the second value above the limit on.
check_window_lenient(conn, identifier, t, horizon, secs, limit) ==
    LET key == <<identifier, horizon, t \div secs>>
        count == IF key \in DOMAIN conn.counters
                 THEN conn.counters[key].value + 1 ELSE 1
        expire_at == IF count = 1 THEN t + secs ELSE conn.counters[key].expire_at
    IN  [ conn    |-> [conn EXCEPT !.counters =
                          Put(@, key, [value |-> count, expire_at |-> expire_at])],
          count   |-> count,
          limited |-> IF count > limit + 1
                      THEN Some([ limit       |-> limit,
                                  remaining   |-> 0,
                                  reset_time  |-> (t \div secs + 1) * secs,
                                  retry_after |-> Some(secs - (t % secs)) ])
                      ELSE None ]

\* Mutant: the counter is keyed by the second, not by the epoch bucket.
check_window_by_second(conn, identifier, t, horizon, secs, limit) ==
    LET key == <<identifier, horizon, t>>
        count == IF key \in DOMAIN conn.counters
                 THEN conn.counters[key].value + 1 ELSE 1
        expire_at == IF count = 1 THEN t + secs ELSE conn.counters[key].expire_at
    IN  [ conn    |-> [conn EXCEPT !.counters =
                          Put(@, key, [value |-> count, expire_at |-> expire_at])],
          count   |-> count,
          limited |-> IF count > limit
                      THEN Some([ limit       |-> limit,
                                  remaining   |-> 0,
                                  reset_time  |-> (t \div secs + 1) * secs,
                                  retry_after |-> Some(secs - (t % secs)) ])
                      ELSE None ]

\* One horizon of check_redis_rate_limit (the code repeats the block for the
\* minute, the hour and the day): INCR on the bucket's key, EXPIRE when the
\* value is 1, and the answer when the value is above the limit.
check_window(conn, identifier, t, horizon, secs, limit) ==
    LET key == <<identifier, horizon, t \div secs>>
        count == IF key \in DOMAIN conn.counters
                 THEN conn.counters[key].value + 1 ELSE 1
        expire_at == IF count = 1 THEN t + secs ELSE conn.counters[key].expire_at
    IN  [ conn    |-> [conn EXCEPT !.counters =
                          Put(@, key, [value |-> count, expire_at |-> expire_at])],
          count   |-> count,
          limited |-> IF count > limit
                      THEN Some([ limit       |-> limit,
                                  remaining   |-> 0,
                                  reset_time  |-> (t \div secs + 1) * secs,
                                  retry_after |-> Some(secs - (t % secs)) ])
                      ELSE None ]

\* RateLimiter::check_redis_rate_limit. reachable = FALSE is a failed
\* get_multiplexed_async_connection. The burst set holds one member per second
\* (ZADD with the second as score and as member); ZREMRANGEBYSCORE drops the
\* scores up to t - 60, and the key lives 60 s from the last call.
check_redis_rate_limit(conn0, reachable, identifier, config, t) ==
    IF ~reachable THEN [ok |-> FALSE, conn |-> conn0, info |-> None]
    ELSE
    LET conn == redis_at(conn0, t)
        m == check_window(conn, identifier, t, "minute", 60, config.requests_per_minute)
        h == check_window(m.conn, identifier, t, "hour", 3600, config.requests_per_hour)
        d == check_window(h.conn, identifier, t, "day", 86400, config.requests_per_day)
        burst_key == identifier
        burst_window == 60
        added == (IF burst_key \in DOMAIN d.conn.zsets
                  THEN d.conn.zsets[burst_key].members ELSE {}) \cup {t}
        kept == {x \in added : x > t - burst_window}
        burst_count == Cardinality(kept)
        b == [d.conn EXCEPT !.zsets =
                 Put(@, burst_key, [members |-> kept, expire_at |-> t + burst_window])]
        remaining == Min2(config.requests_per_minute - m.count,
                          Min2(config.requests_per_hour - h.count,
                               config.requests_per_day - d.count))
    IN  IF IsSome(m.limited) THEN [ok |-> TRUE, conn |-> m.conn, info |-> m.limited]
        ELSE IF IsSome(h.limited) THEN [ok |-> TRUE, conn |-> h.conn, info |-> h.limited]
        ELSE IF IsSome(d.limited) THEN [ok |-> TRUE, conn |-> d.conn, info |-> d.limited]
        ELSE IF burst_count > config.burst_limit
        THEN [ ok   |-> TRUE,
               conn |-> b,
               info |-> Some([ limit       |-> config.burst_limit,
                               remaining   |-> 0,
                               reset_time  |-> t + burst_window,
                               retry_after |-> Some(burst_window) ]) ]
        ELSE [ ok   |-> TRUE,
               conn |-> b,
               info |-> Some([ limit       |-> config.requests_per_minute,
                               remaining   |-> remaining,
                               reset_time  |-> (t \div 60 + 1) * 60,
                               retry_after |-> None ]) ]

\* RateLimiter::check_memory_rate_limit on the limiter's own memory_store.
check_memory_rate_limit(memory_store, identifier, config, t) ==
    LET old == IF identifier \in DOMAIN memory_store
               THEN memory_store[identifier] ELSE <<>>
        retained == SelectSeq(old, LAMBDA x : t - x < 3600)
        requests == Append(retained, t)
        minute_requests == Len(SelectSeq(requests, LAMBDA x : t - x < 60))
        hour_requests == Len(requests)
        store == Put(memory_store, identifier, requests)
    IN  IF minute_requests > config.requests_per_minute
        THEN [ memory_store |-> store,
               info |-> [ limit       |-> config.requests_per_minute,
                          remaining   |-> 0,
                          reset_time  |-> t + 60,
                          retry_after |-> Some(60) ] ]
        ELSE IF hour_requests > config.requests_per_hour
        THEN [ memory_store |-> store,
               info |-> [ limit       |-> config.requests_per_hour,
                          remaining   |-> 0,
                          reset_time  |-> t + 3600,
                          retry_after |-> Some(3600) ] ]
        ELSE [ memory_store |-> store,
               info |-> [ limit       |-> config.requests_per_minute,
                          remaining   |-> Min2(config.requests_per_minute - minute_requests,
                                               config.requests_per_hour - hour_requests),
                          reset_time  |-> t + 60,
                          retry_after |-> None ] ]

\* RateLimiter::new: the fallback store starts empty.
RateLimiter_new == [memory_store |-> EmptyMap]

\* RateLimiter::check_rate_limit: the primary store first, the limiter's
\* memory store when the primary store fails. path tells which one answered.
check_rate_limit(rate_limiter, conn, reachable, identifier, config, t) ==
    LET from_memory(fallback) ==
            [ conn |-> conn,
              rate_limiter |-> [rate_limiter EXCEPT !.memory_store = fallback.memory_store],
              info |-> fallback.info, path |-> "fallback" ]
        answer(primary) ==
            IF primary.ok
            THEN [ conn |-> primary.conn, rate_limiter |-> rate_limiter,
                   info |-> primary.info[1], path |-> "primary" ]
            ELSE from_memory(check_memory_rate_limit(rate_limiter.memory_store,
                                                     identifier, config, t))
    IN  answer(check_redis_rate_limit(conn, reachable, identifier, config, t))

\* ------------------------------------------------------------ the gateway: authentication
\* i64 arithmetic at the width I64Bits: with overflow checks (a debug build)
\* an overflow panics, without them (a release build) the result wraps.
I64_MIN == -(2 ^ (I64Bits - 1))
I64_MAX == 2 ^ (I64Bits - 1) - 1
i64_op(x, overflow_checks) ==
    LET wrapped == ((x - I64_MIN) % (2 ^ I64Bits)) + I64_MIN
    IN  IF x >= I64_MIN /\ x <= I64_MAX THEN Some(x)
        ELSE IF overflow_checks THEN None ELSE Some(wrapped)

\* The user repository (database.rs): the user of an ID, if any.
get_user_by_id(db, id) ==
    IF id \in DOMAIN db.users THEN Some(db.users[id]) ELSE None

\* The user repository (database.rs): the key of a bearer token, if it is live
\* at second t: it exists, is active and is before its expiry.
verify_api_key(db, token, t) ==
    IF /\ token.key \in DOMAIN db.api_keys
       /\ db.api_keys[token.key].is_active
       /\ \/ db.api_keys[token.key].expires_at = None
          \/ t < db.api_keys[token.key].expires_at[1]
    THEN Some(db.api_keys[token.key]) ELSE None

\* verify_jwt_token: jsonwebtoken's decode under Validation::default() checks
\* the signature and the expiry; signed and expired are its two verdicts.
verify_jwt_token(token) ==
    IF token.signed /\ ~token.expired
    THEN Some([sub |-> token.sub, token_type |-> token.token_type])
    ELSE None

\* verify_user_api_key: the user of a live key of type api_key.
verify_user_api_key(g, token) ==
    LET claims == verify_jwt_token(token)
        api_key == verify_api_key(g.db, token, g.clock)
    IN  IF claims = None THEN None
        ELSE IF claims[1].token_type # "api_key" THEN None
        ELSE IF api_key = None THEN None
        ELSE get_user_by_id(g.db, api_key[1].user_id)

\* Mutant: every route is taken for a public one.
is_public_route_any(path) == TRUE

\* A path is the sequence of its segments: /api/v1/nodes is <<"api", "v1",
\* "nodes">>. starts_with("/api/v1/nodes/") asks for a fourth segment and
\* contains("/admin/") for a segment admin that is not the last.
is_public_route(path) ==
    \/ path \in { <<"health">>,
                  <<"api", "v1", "auth", "register">>,
                  <<"api", "v1", "auth", "login">>,
                  <<"api", "v1", "auth", "near-login">>,
                  <<"api", "v1", "network", "stats">>,
                  <<"api", "v1", "nodes">> }
    \/ /\ Len(path) > 3
       /\ SubSeq(path, 1, 3) = <<"api", "v1", "nodes">>
       /\ ~ \E i \in 1 .. Len(path) - 1 : path[i] = "admin"

\* What a middleware or a handler answers when it returns Err(status): the
\* status alone.
Rejected(g, status) ==
    [g |-> g, response |-> [status |-> status, headers |-> EmptyMap, body |-> None]]

\* near_wallet_login (auth.rs, the handler the router names). The body tells
\* whether each field parses and whether the signature verifies over the
\* message; the message is the sequence of its parts between '|', each part a
\* number or not. A first login provisions the account's user.
near_wallet_login(g, body) ==
    IF ~body.account_id_parses \/ ~body.public_key_parses \/ ~body.signature_parses
    THEN Rejected(g, 400)
    ELSE IF ~body.signature_verifies THEN Rejected(g, 401)
    ELSE IF Len(body.message) # 2 THEN Rejected(g, 400)
    ELSE IF ~body.message[2].numeric THEN Rejected(g, 400)
    ELSE
    LET timestamp == body.message[2].value
        difference == i64_op(g.clock - timestamp, g.overflow_checks)
        distance == IF difference[1] < 0
                    THEN i64_op(-difference[1], g.overflow_checks)
                    ELSE difference
        known == { id \in DOMAIN g.db.users :
                       g.db.users[id].near_account_id = Some(body.account_id) }
        id == IF known = {} THEN "near_" \o body.account_id ELSE CHOOSE x \in known : TRUE
        users == IF known = {}
                 THEN Put(g.db.users, id, [ id              |-> id,
                                            is_active       |-> TRUE,
                                            is_admin        |-> FALSE,
                                            tier            |-> "free",
                                            near_account_id |-> Some(body.account_id) ])
                 ELSE g.db.users
    IN  IF difference = None \/ distance = None THEN Rejected(g, 500)
        ELSE IF distance[1] > 300 THEN Rejected(g, 401)
        ELSE [ g |-> [g EXCEPT !.db.users = users],
               response |-> [status |-> 200, headers |-> EmptyMap, body |-> Some(id)] ]

\* The routes of main: the handler a path reaches, if any. A segment written
\* ":x" in the source matches any one segment.
route(path) ==
    LET under(prefix) == Len(path) >= Len(prefix) /\ SubSeq(path, 1, Len(prefix)) = prefix
        api == <<"api", "v1">>
    IN  CASE path = <<"health">> -> Some("health_check")
          [] path = api \o <<"auth", "register">> -> Some("auth::register_user")
          [] path = api \o <<"auth", "login">> -> Some("auth::login_user")
          [] path = api \o <<"auth", "near-login">> -> Some("auth::near_wallet_login")
          [] path = api \o <<"tasks">> -> Some("tasks::submit_task")
          [] under(api \o <<"tasks">>) /\ Len(path) = 4 -> Some("tasks::get_task")
          [] under(api \o <<"tasks">>) /\ Len(path) = 5 /\ path[5] = "result" ->
                 Some("tasks::get_task_result")
          [] under(api \o <<"tasks">>) /\ Len(path) = 5 /\ path[5] = "cancel" ->
                 Some("tasks::cancel_task")
          [] path = api \o <<"nodes">> -> Some("nodes::list_active_nodes")
          [] under(api \o <<"nodes">>) /\ Len(path) = 4 -> Some("nodes::get_node_info")
          [] path = api \o <<"network", "stats">> -> Some("network::get_network_stats")
          [] path = api \o <<"user", "profile">> -> Some("users::get_profile")
          [] path = api \o <<"user", "api-keys">> -> Some("users::create_api_key")
          [] under(api \o <<"user", "api-keys">>) /\ Len(path) = 5 ->
                 Some("users::revoke_api_key")
          [] path = api \o <<"user", "usage">> -> Some("users::get_usage_stats")
          [] path = api \o <<"admin", "users">> -> Some("admin::list_users")
          [] path = api \o <<"admin", "tasks">> -> Some("admin::list_all_tasks")
          [] path = api \o <<"admin", "nodes">> -> Some("admin::list_all_nodes")
          [] path = api \o <<"admin", "system", "metrics">> ->
                 Some("admin::get_system_metrics")
          [] OTHER -> None

\* The router proper: the handler of the path runs, or the answer is 404. ran
\* keeps which handler ran for the request and for which principal, handled
\* how many handlers have run. Only the wallet login's body is followed.
dispatch(g, request) ==
    LET handler == route(request.path)
        entered == [g EXCEPT !.ran = Some([ handler   |-> handler[1],
                                            principal |-> request.extensions ]),
                             !.handled = @ + 1]
    IN  IF handler = None THEN Rejected(g, 404)
        ELSE IF handler[1] = "auth::near_wallet_login"
        THEN near_wallet_login(entered, request.body[1])
        ELSE [ g |-> entered,
               response |-> [status |-> 200, headers |-> EmptyMap, body |-> None] ]

\* auth_middleware. Its next is the router with the routes: main puts the
\* authentication layer innermost.
auth_middleware(g, request) ==
    IF is_public_route(request.path) THEN dispatch(g, request)
    ELSE IF request.authorization = None THEN Rejected(g, 401)
    ELSE IF request.authorization[1].scheme # "Bearer" THEN Rejected(g, 401)
    ELSE
    LET token == request.authorization[1].token
        claims == verify_jwt_token(token)
        is_api_key == claims[1].token_type = "api_key"
        user == IF is_api_key
                THEN verify_user_api_key(g, token)
                ELSE get_user_by_id(g.db, claims[1].sub)
    IN  IF claims = None THEN Rejected(g, 401)
        ELSE IF user = None THEN Rejected(g, 401)
        ELSE IF ~user[1].is_active THEN Rejected(g, 403)
        ELSE dispatch(g, [request EXCEPT
                              !.extensions = Some([user |-> user[1],
                                                   is_api_key |-> is_api_key])])

\* rate_limit_middleware: a limiter made for this request, the principal from
\* the request's extensions or else the client address, the check, then the
\* rest of the stack, then the headers and the 429. Its next is the
\* authentication layer: main puts the rate limit around it. check_rate_limit
\* has no failing outcome, so the Err arm is never taken.
rate_limit_middleware(g, request, reachable) ==
    LET rate_limiter == RateLimiter_new
        user_info == request.extensions
        identifier == IF IsSome(user_info) THEN <<"user", user_info[1].user.id>>
                      ELSE <<"ip", request.ip>>
        config == IF IsSome(user_info) THEN get_user_tier_config(user_info[1].user.tier)
                  ELSE get_ip_rate_limit_config
        answer(info, inner) ==
            LET headers == Put(Put(Put(inner.response.headers,
                                       "X-RateLimit-Limit", info.limit),
                                   "X-RateLimit-Remaining", info.remaining),
                               "X-RateLimit-Reset", info.reset_time)
            IN  IF IsSome(info.retry_after) /\ info.remaining = 0
                THEN Rejected([inner.g EXCEPT !.limited = TRUE], 429)
                ELSE [ g |-> [inner.g EXCEPT !.limited = FALSE],
                       response |-> [inner.response EXCEPT !.headers = headers] ]
        run(checked) ==
            answer(checked.info, auth_middleware([g EXCEPT !.redis = checked.conn], request))
    IN  run(check_rate_limit(rate_limiter, g.redis, reachable, identifier, config, g.clock))

\* The application main serves: ServiceBuilder runs its first layer
\* outermost, so a request enters the rate limit, which wraps the
\* authentication, which wraps the routes.
app(g, request, reachable) ==
    rate_limit_middleware([g EXCEPT !.ran = None], request, reachable)

\* AppState at start: an empty key-value store and the repository as given.
\* schedule holds the seconds of the calls to come; config is the
\* configuration check_rate_limit is given when it is called on its own;
\* limited, ran, handled, served, last and log describe the calls so far.
AppState_new(db, overflow_checks, schedule) ==
    [ clock           |-> Head(schedule),
      schedule        |-> Tail(schedule),
      config          |-> get_ip_rate_limit_config,
      redis           |-> [counters |-> EmptyMap, zsets |-> EmptyMap],
      db              |-> db,
      overflow_checks |-> overflow_checks,
      limited         |-> FALSE,
      ran             |-> None,
      handled         |-> 0,
      served          |-> 0,
      last            |-> None,
      log             |-> <<>> ]

\* ------------------------------------------------------------ the gateway: inputs
\* The repository at start: an active user, an inactive one and an
\* administrator; a live key, a revoked one and one that expires at 86430.
Repository ==
    [ users |->
          [ id \in {"u1", "u2", "u3"} |->
              [ id              |-> id,
                is_active       |-> id # "u2",
                is_admin        |-> id = "u3",
                tier            |-> "free",
                near_account_id |-> None ] ],
      api_keys |->
          [ key \in {"k1", "k2", "k3"} |->
              [ user_id    |-> "u1",
                is_active  |-> key # "k2",
                expires_at |-> IF key = "k3" THEN Some(86430) ELSE None ] ] ]

\* The seconds at which the gateway is called, in order: around the end of a
\* minute that is also the end of an hour and of a day.
GatewayClock == <<86400, 86460>>
LimiterClock == <<86338, 86339, 86340, 86399, 86400>>
SixClock == <<86399, 86400>>

\* ------------------------------------------------------------ the runtime
\* A method that panics aborts the transaction: nothing it wrote is kept.
Commit(r) == IF r.err = "ok" THEN r.st ELSE contract

Init ==
    /\ contract = new(owner_id)
    /\ now = 0
    /\ agent = NodeDaemon_new(DEFAULT_MAX_CONCURRENT_TASKS)
    /\ gateway = AppState_new(Repository, TRUE, GatewayClock)

RegisterNode ==
    \E x \in RegisterCalls :
        LET env == Env(x.caller, x.deposit, now, 0)
        IN  /\ contract' = Commit(register_node(contract, env, x.public_ip, x.gpu_specs,
                                                 x.cpu_specs, x.api_endpoint))
            /\ UNCHANGED <<now, agent, gateway>>

Heartbeat ==
    \E a \in HeartbeatCallers :
        LET env == Env(a, 0, now, 0)
        IN  /\ contract' = Commit(heartbeat(contract, env))
            /\ UNCHANGED <<now, agent, gateway>>

DeactivateNode ==
    \E x \in DeactivateCalls :
        LET env == Env(x.caller, x.deposit, now, 0)
        IN  /\ contract' = Commit(deactivate_node(contract, env))
            /\ UNCHANGED <<now, agent, gateway>>

SubmitTask ==
    /\ contract.task_counter < MaxTasks
    /\ \E x \in SubmitCalls :
        LET env == Env(x.caller, x.deposit, now, 0)
        IN  /\ contract' = Commit(submit_task(contract, env, x.description, x.cost, x.priority))
            /\ UNCHANGED <<now, agent, gateway>>

SubmitResult ==
    \E x \in ResultCalls :
        LET env == Env(x.caller, x.deposit, now, 0)
        IN  /\ contract' = Commit(submit_result(contract, env, x.task_id, x.proof_hash, x.output))
            /\ UNCHANGED <<now, agent, gateway>>

TimeoutTask ==
    \E x \in TimeoutCalls :
        LET env == Env(x.caller, x.deposit, now, 0)
        IN  /\ contract' = Commit(timeout_task(contract, env, x.task_id))
            /\ UNCHANGED <<now, agent, gateway>>

FtTransfer ==
    \E x \in TransferCalls :
        LET env == Env(x.caller, x.deposit, now, 0)
        IN  /\ contract' = Commit(ft_transfer(contract, env, x.receiver_id, x.amount))
            /\ UNCHANGED <<now, agent, gateway>>

UpdateMinStake ==
    \E x \in AdminEnvs, n \in TriedMinStakes :
        LET env == Env(x.caller, x.deposit, now, 0)
        IN  /\ contract' = Commit(update_min_stake(contract, env, n))
            /\ UNCHANGED <<now, agent, gateway>>

PauseContract ==
    \E x \in AdminEnvs :
        LET env == Env(x.caller, x.deposit, now, 0)
        IN  /\ contract' = Commit(pause_contract(contract, env))
            /\ UNCHANGED <<now, agent, gateway>>

UnpauseContract ==
    \E x \in AdminEnvs :
        LET env == Env(x.caller, x.deposit, now, 0)
        IN  /\ contract' = Commit(unpause_contract(contract, env))
            /\ UNCHANGED <<now, agent, gateway>>

UpdateMaxTasksPerNode ==
    \E x \in AdminEnvs, n \in TriedMaxTasks :
        LET env == Env(x.caller, x.deposit, now, 0)
        IN  /\ contract' = Commit(update_max_tasks_per_node(contract, env, n))
            /\ UNCHANGED <<now, agent, gateway>>

UpdateTaskTimeout ==
    \E x \in AdminEnvs, n \in TriedTimeouts :
        LET env == Env(x.caller, x.deposit, now, 0)
        IN  /\ contract' = Commit(update_task_timeout(contract, env, n))
            /\ UNCHANGED <<now, agent, gateway>>

EmergencyWithdraw ==
    \E x \in AdminEnvs, n \in WithdrawAmounts, b \in AccountBalances :
        LET env == Env(x.caller, x.deposit, now, b)
        IN  /\ contract' = Commit(emergency_withdraw(contract, env, n))
            /\ UNCHANGED <<now, agent, gateway>>

\* Block time only moves forward.
Advance ==
    /\ \E t \in TimePoints : t > now /\ now' = t
    /\ UNCHANGED <<contract, agent, gateway>>

Next ==
    \/ RegisterNode
    \/ Heartbeat
    \/ DeactivateNode
    \/ SubmitTask
    \/ SubmitResult
    \/ TimeoutTask
    \/ FtTransfer
    \/ UpdateMinStake
    \/ PauseContract
    \/ UnpauseContract
    \/ UpdateMaxTasksPerNode
    \/ UpdateTaskTimeout
    \/ EmergencyWithdraw
    \/ Advance

Spec == Init /\ [][Next]_vars

\* ============================================================ properties
\* Every call the properties consider in the current state: the method, its
\* environment and arguments, and the outcome r of running it.
StakeDeposits == {MIN_STAKE_YOCTO - 1, MIN_STAKE_YOCTO}
YoctoDeposits == {0, ONE_YOCTO, 2 * ONE_YOCTO}
FeeDeposits == {STORAGE_COST, 1 + STORAGE_COST, 2 + STORAGE_COST}
Envs(deposits) == {Env(a, d, now, b) : a \in Accounts, d \in deposits, b \in AccountBalances}

RegisterOutcomes ==
    { [method |-> "register_node", env |-> e, public_ip |-> ip,
       r |-> register_node(contract, e, ip, g, c, ep)] :
         e \in Envs(StakeDeposits), ip \in PublicIps,
         g \in {8, MAX_SPECS_LEN + 1}, c \in {8, MAX_SPECS_LEN + 1},
         ep \in {0, MAX_ENDPOINT_LEN, MAX_ENDPOINT_LEN + 1} }
HeartbeatOutcomes ==
    { [method |-> "heartbeat", env |-> e, r |-> heartbeat(contract, e)] : e \in Envs({0}) }
DeactivateOutcomes ==
    { [method |-> "deactivate_node", env |-> e, r |-> deactivate_node(contract, e)] :
         e \in Envs(YoctoDeposits) }
SubmitTaskOutcomes ==
    { [method |-> "submit_task", env |-> e, r |-> submit_task(contract, e, d, c, p)] :
         e \in Envs(FeeDeposits), d \in {0, MAX_DESCRIPTION_LEN, MAX_DESCRIPTION_LEN + 1},
         c \in ComputeCosts, p \in {None, Some("Low")} }
SubmitResultOutcomes ==
    { [method |-> "submit_result", env |-> e, task_id |-> id,
       r |-> submit_result(contract, e, id, h, o)] :
         e \in Envs(YoctoDeposits), id \in TaskIds, h \in ProofHashLens,
         o \in {0, MAX_OUTPUT_LEN, MAX_OUTPUT_LEN + 1} }
TimeoutOutcomes ==
    { [method |-> "timeout_task", env |-> e, task_id |-> id, r |-> timeout_task(contract, e, id)] :
         e \in Envs(YoctoDeposits), id \in TaskIds }
TransferOutcomes ==
    { [method |-> "ft_transfer", env |-> e, r |-> ft_transfer(contract, e, to, n)] :
         e \in Envs(YoctoDeposits), to \in Accounts, n \in TransferAmounts }
AdminOutcomes ==
    { [method |-> "update_min_stake", env |-> e, r |-> update_min_stake(contract, e, n)] :
         e \in Envs(YoctoDeposits), n \in MinStakes }
    \cup { [method |-> "update_max_tasks_per_node", env |-> e,
            r |-> update_max_tasks_per_node(contract, e, n)] :
              e \in Envs(YoctoDeposits), n \in MaxTasksValues }
    \cup { [method |-> "update_task_timeout", env |-> e,
            r |-> update_task_timeout(contract, e, n)] :
              e \in Envs(YoctoDeposits), n \in TimeoutValues }
PauseOutcomes ==
    { [method |-> "pause_contract", env |-> e, r |-> pause_contract(contract, e)] :
         e \in Envs(YoctoDeposits) }
    \cup { [method |-> "unpause_contract", env |-> e, r |-> unpause_contract(contract, e)] :
              e \in Envs(YoctoDeposits) }
    \cup { [method |-> "emergency_withdraw", env |-> e, r |-> emergency_withdraw(contract, e, n)] :
              e \in Envs(YoctoDeposits), n \in WithdrawAmounts }

\* Outcomes of different methods are kept in separate sets; Outcome(S, P)
\* says that P holds of every outcome in S.
Panicked(o) == o.r.err # "ok"
Returned(o) == o.r.err = "ok"

RECURSIVE SumOver(_, _)
SumOver(f, S) ==
    IF S = {} THEN 0
    ELSE LET x == CHOOSE x \in S : TRUE IN f[x] + SumOver(f, S \ {x})

SumOfBalances(s) == SumOver(s.token.accounts, DOMAIN s.token.accounts)

ActiveIds(s) == DOMAIN s.active_tasks
ArchivedIds(s) == DOMAIN s.completed_tasks

\* ---- C1
\* C1 (state part): the total supply is the sum of all balances and is the
\* total of the rewards distributed.
Conserved(s) ==
    /\ ft_total_supply(s) = SumOfBalances(s)
    /\ ft_total_supply(s) = s.total_rewards_distributed

\* C1 (step part): the supply changes only by the reward of one task that the
\* step moves from the active table to the archive as Completed.
MintStep ==
    ft_total_supply(contract') # ft_total_supply(contract) =>
        \E id \in ActiveIds(contract) :
            /\ id \notin ActiveIds(contract')
            /\ id \in ArchivedIds(contract')
            /\ contract'.completed_tasks[id].status = "Completed"
            /\ ft_total_supply(contract') =
                  ft_total_supply(contract) + contract.active_tasks[id].reward_amount

\* C1 (transfer part): no ft_transfer call, accepted or refused, changes the supply.
TransferKeepsSupply ==
    \A o \in TransferOutcomes :
        /\ ft_total_supply(o.r.st) = ft_total_supply(contract)
        /\ Returned(o) => Conserved(o.r.st)

\* C1: token conservation: in every reachable state total supply = sum of
\* balances = total_rewards_distributed; the supply grows only when
\* submit_result mints the completed task's reward_amount; ft_transfer leaves
\* the supply unchanged.
TokenConservation ==
    /\ [](Conserved(contract) /\ TransferKeepsSupply)
    /\ [][MintStep]_vars

\* C1 witness: tokens were minted and some of them transferred to an account
\* that never earned a reward.
TokensMintedAndMoved ==
    /\ ft_total_supply(contract) > 0
    /\ ft_balance_of(contract, "carol") > 0

\* ---- C2
Atomic(outcomes) ==
    \A o \in outcomes : Panicked(o) => o.r.st = contract /\ o.r.promise = None

\* C2: failure atomicity: whenever a mutating call panics, the state it has
\* written by then is the state before the call and no transfer is scheduled:
\* no write precedes a check that can still fail.
FailureAtomicity ==
    /\ Atomic(RegisterOutcomes)
    /\ Atomic(HeartbeatOutcomes)
    /\ Atomic(DeactivateOutcomes)
    /\ Atomic(SubmitTaskOutcomes)
    /\ Atomic(SubmitResultOutcomes)
    /\ Atomic(TimeoutOutcomes)
    /\ Atomic(TransferOutcomes)
    /\ Atomic(AdminOutcomes)
    /\ Atomic(PauseOutcomes)

\* C2 witness: the contract is paused with a node that is registered and not
\* live, so a heartbeat panics in a state a heartbeat would change; and a
\* result for an assigned task is refused by the last check of submit_result.
PanicsWithWorkToDo ==
    /\ contract.paused
    /\ \E a \in DOMAIN contract.nodes : contract.nodes[a].last_heartbeat < now
    /\ \E o \in HeartbeatOutcomes : o.r.err = "Contract is paused"
    /\ \E o \in SubmitResultOutcomes : o.r.err = "Task has timed out"

\* ---- C3
Refused(outcomes) ==
    \A o \in outcomes : o.r.err = "Contract is paused" /\ o.r.st = contract

\* C3 (as claimed): while paused, every mutating method other than the
\* owner's unpause panics with "Contract is paused" and changes nothing.
PauseGuard ==
    contract.paused =>
        /\ Refused(RegisterOutcomes)
        /\ Refused(HeartbeatOutcomes)
        /\ Refused(SubmitTaskOutcomes)
        /\ Refused(DeactivateOutcomes)
        /\ Refused(SubmitResultOutcomes)
        /\ Refused(TimeoutOutcomes)
        /\ Refused(TransferOutcomes)
        /\ Refused(AdminOutcomes)

\* ---- C4
PendingIds(s) == {s.pending_tasks[i] : i \in 1..Len(s.pending_tasks)}

\* C4: queue consistency: the pending vector holds exactly the IDs of the
\* active tasks whose status is Pending, each once, and none of them has an
\* assignee.
QueueConsistency ==
    /\ PendingIds(contract) =
          {id \in ActiveIds(contract) : contract.active_tasks[id].status = "Pending"}
    /\ Cardinality(PendingIds(contract)) = Len(contract.pending_tasks)
    /\ \A id \in PendingIds(contract) :
          id \in ActiveIds(contract) /\ contract.active_tasks[id].assignee = None

\* C4 witness: the scheduler has assigned one task while another one waits.
PendingBesideAssigned ==
    /\ Len(contract.pending_tasks) > 0
    /\ \E id \in ActiveIds(contract) : contract.active_tasks[id].status = "Assigned"

\* ---- C5
IssuedIds(s) == 0..(s.task_counter - 1)

ArchiveState(s) ==
    /\ ActiveIds(s) \cap ArchivedIds(s) = {}
    /\ ActiveIds(s) \cup ArchivedIds(s) = IssuedIds(s)
    /\ \A id \in ArchivedIds(s) : s.completed_tasks[id].status \in {"Completed", "TimedOut"}
    /\ \A id \in ActiveIds(s) : s.active_tasks[id].status \in {"Pending", "Assigned"}

ArchiveStep ==
    /\ \A id \in ArchivedIds(contract) :
          /\ id \in ArchivedIds(contract')
          /\ contract'.completed_tasks[id] = contract.completed_tasks[id]
    /\ \A id \in ArchivedIds(contract') \ ArchivedIds(contract) :
          /\ id \in ActiveIds(contract)
          /\ IsActiveStatus(contract.active_tasks[id].status)

\* C5: archive disjointness: no task ID is in both active_tasks and
\* completed_tasks; every issued ID is in exactly one of them; a task enters
\* the archive once, from an assigned state, as Completed or TimedOut, and an
\* archived record never changes or leaves the archive.
ArchiveDisjointness ==
    /\ []ArchiveState(contract)
    /\ [][ArchiveStep]_vars

\* C5 witness: one task archived as Completed, another as TimedOut.
BothKindsArchived ==
    /\ \E id \in ArchivedIds(contract) : contract.completed_tasks[id].status = "Completed"
    /\ \E id \in ArchivedIds(contract) : contract.completed_tasks[id].status = "TimedOut"

\* ---- C9
Assigned(s) == {id \in ActiveIds(s) : s.active_tasks[id].status \in {"Assigned", "InProgress"}}

DeadlineSet(s) ==
    \A id \in Assigned(s) :
        LET task == s.active_tasks[id]
        IN  /\ IsSome(task.assigned_at)
            /\ IsSome(task.timeout_at)
            /\ Unwrap(task.timeout_at) - Unwrap(task.assigned_at)
                  \in MIN_TIMEOUT_DURATION..MAX_TIMEOUT_DURATION
            /\ Unwrap(task.timeout_at) > Unwrap(task.assigned_at)

DeadlineStep ==
    \A id \in Assigned(contract') :
        LET task == contract'.active_tasks[id]
        IN  IF id \in Assigned(contract)
            THEN /\ task.assigned_at = contract.active_tasks[id].assigned_at
                 /\ task.timeout_at = contract.active_tasks[id].timeout_at
            ELSE /\ task.assigned_at = Some(now)
                 /\ task.timeout_at = Some(now + contract.task_timeout_duration)

\* C9 (as claimed): every assigned task's timeout_at equals its assigned_at
\* plus the coordinator's configured task_timeout_duration, in every state,
\* those reached through update_task_timeout included.
DeadlineTracksConfiguration ==
    \A id \in Assigned(contract) :
        LET task == contract.active_tasks[id]
        IN  /\ IsSome(task.assigned_at)
            /\ IsSome(task.timeout_at)
            /\ Unwrap(task.timeout_at) = Unwrap(task.assigned_at) + contract.task_timeout_duration

\* C9 (amended): every assigned task has assigned_at and timeout_at set, with
\* timeout_at = assigned_at + the task_timeout_duration that was configured
\* when the task was assigned (a value between 5 minutes and 24 hours), hence
\* timeout_at > assigned_at; a later update_task_timeout leaves the deadlines
\* of the tasks already assigned as they are.
DeadlineFromAssignment ==
    /\ []DeadlineSet(contract)
    /\ [][DeadlineStep]_vars

\* C9 witness: the owner has changed the timeout while a task was assigned,
\* so the task's deadline is not the one the current configuration would give.
DeadlineOutlivesConfiguration ==
    \E id \in Assigned(contract) :
        LET task == contract.active_tasks[id]
        IN  /\ IsSome(task.timeout_at)
            /\ Unwrap(task.timeout_at) # Unwrap(task.assigned_at) + contract.task_timeout_duration

\* ---- C10
ResultAccepted(o) ==
    /\ o.env.deposit = ONE_YOCTO
    /\ o.task_id \in ActiveIds(contract)
    /\ LET task == contract.active_tasks[o.task_id]
       IN  /\ task.assignee = Some(o.env.predecessor)
           /\ task.status \in {"Assigned", "InProgress"}
           /\ IsSome(task.timeout_at)
           /\ o.env.now <= Unwrap(task.timeout_at)

ResultGuard ==
    \A o \in SubmitResultOutcomes :
        /\ Returned(o) => ResultAccepted(o)
        /\ ~ResultAccepted(o) => /\ Panicked(o)
                                 /\ o.r.st = contract
                                 /\ o.r.promise = None

RewardStep ==
    \A a \in Accounts :
        (/\ ft_total_supply(contract') # ft_total_supply(contract)
         /\ ft_balance_of(contract', a) # ft_balance_of(contract, a)) =>
            \E id \in ActiveIds(contract) :
                /\ contract.active_tasks[id].assignee = Some(a)
                /\ contract.active_tasks[id].status \in {"Assigned", "InProgress"}
                /\ id \notin ArchivedIds(contract)
                /\ id \in ArchivedIds(contract')
                /\ contract'.completed_tasks[id].status = "Completed"
                /\ ft_balance_of(contract', a) =
                      ft_balance_of(contract, a) + contract.active_tasks[id].reward_amount

CompletedStays ==
    \A id \in ArchivedIds(contract) : id \notin ActiveIds(contract')

\* C10: submit_result succeeds only when the call carries exactly 1 yocto,
\* the task is active, its assignee is the caller, its status is Assigned or
\* InProgress and now <= timeout_at; in every other case it panics, mints
\* nothing and changes nothing. A reward is minted only in a step that
\* archives an assigned task as Completed, to that task's assignee, and an
\* archived task never becomes active again, so it is minted at most once.
ResultOnlyFromAssignee ==
    /\ []ResultGuard
    /\ [][RewardStep /\ CompletedStays]_vars

\* C10 witness: a reward has been minted to its node, another task is
\* assigned and past its deadline, and a third ID names no active task, so
\* results are being refused for lateness, for a wrong caller and for a
\* task that is not active.
ResultsRefusedAfterReward ==
    /\ ft_total_supply(contract) > 0
    /\ \E o \in SubmitResultOutcomes : o.r.err = "Task has timed out"
    /\ \E o \in SubmitResultOutcomes : o.r.err = "Not assigned to this node"
    /\ \E o \in SubmitResultOutcomes : o.r.err = "Task not found"

\* ============================================================ the registry
\* Two operators who register under either address, beat, leave and wait.
NodeOperators == {"alice", "bob"}
NodeRegisterCalls ==
    { [caller |-> a, deposit |-> MIN_STAKE_YOCTO, public_ip |-> ip,
       gpu_specs |-> 8, cpu_specs |-> 8, api_endpoint |-> 25] :
         a \in NodeOperators, ip \in PublicIps }

RegisterAny ==
    \E x \in NodeRegisterCalls :
        LET env == Env(x.caller, x.deposit, now, 0)
        IN  /\ contract' = Commit(register_node(contract, env, x.public_ip, x.gpu_specs,
                                                 x.cpu_specs, x.api_endpoint))
            /\ UNCHANGED <<now, agent, gateway>>

NextNodes ==
    \/ RegisterAny
    \/ Heartbeat
    \/ DeactivateNode
    \/ Advance

SpecNodes == Init /\ [][NextNodes]_vars

\* ---- C7
IpHeld(s, ip) == \E a \in DOMAIN s.nodes : s.nodes[a].public_ip = ip

\* C7: IP uniqueness: no two node records, active or deactivated, have the
\* same public_ip; register_node with an IP that some record already holds
\* panics and leaves the state unchanged, and an otherwise valid registration
\* panics with "IP address already registered".
IpUniqueness ==
    /\ \A a, b \in DOMAIN contract.nodes :
          a # b => contract.nodes[a].public_ip # contract.nodes[b].public_ip
    /\ \A o \in RegisterOutcomes :
          IpHeld(contract, o.public_ip) => Panicked(o) /\ o.r.st = contract
    /\ \A a \in Accounts \ DOMAIN contract.nodes, ip \in PublicIps :
          (IpHeld(contract, ip) /\ ~contract.paused /\ contract.min_stake <= MIN_STAKE_YOCTO) =>
              register_node(contract, Env(a, MIN_STAKE_YOCTO, now, 0), ip, 8, 8, 25).err
                  = "IP address already registered"

\* C7 witness: two nodes hold the two addresses, one of them deactivated, and
\* a registration under the deactivated node's address is refused.
BothAddressesHeld ==
    /\ DOMAIN contract.nodes = NodeOperators
    /\ \E a \in NodeOperators : ~contract.nodes[a].is_active
    /\ \E o \in RegisterOutcomes :
          /\ o.r.err = "IP address already registered"
          /\ \E a \in NodeOperators :
                ~contract.nodes[a].is_active /\ contract.nodes[a].public_ip = o.public_ip

\* ============================================================ repeated slashing
\* One operator whose cap the owner raises, a requester who fills the cap,
\* and a clock that passes every deadline at once.
MaxSlashes == SLASH_DIVISOR + 1

SlashRaiseCap ==
    LET env == Env(owner_id, ONE_YOCTO, now, 0)
    IN  /\ contract' = Commit(update_max_tasks_per_node(contract, env, MaxSlashes))
        /\ UNCHANGED <<now, agent, gateway>>

SlashRegister ==
    LET env == Env("alice", MIN_STAKE_YOCTO, now, 0)
    IN  /\ contract' = Commit(register_node(contract, env, "10.0.0.1", 8, 8, 25))
        /\ UNCHANGED <<now, agent, gateway>>

SlashSubmit ==
    /\ contract.task_counter < MaxSlashes
    /\ LET env == Env("carol", 1 + STORAGE_COST, now, 0)
       IN  /\ contract' = Commit(submit_task(contract, env, 9, 1, None))
           /\ UNCHANGED <<now, agent, gateway>>

SlashTimeout ==
    \E id \in 0..(MaxSlashes - 1) :
        LET env == Env("carol", ONE_YOCTO, now, 0)
        IN  /\ id \in ActiveIds(contract)
            /\ \A j \in ActiveIds(contract) : id <= j
            /\ contract' = Commit(timeout_task(contract, env, id))
            /\ UNCHANGED <<now, agent, gateway>>

SlashAdvance ==
    /\ now = 0
    /\ now' = MaxTime
    /\ UNCHANGED <<contract, agent, gateway>>

SlashDeactivate ==
    LET env == Env("alice", ONE_YOCTO, now, 0)
    IN  /\ contract' = Commit(deactivate_node(contract, env))
        /\ UNCHANGED <<now, agent, gateway>>

NextSlash ==
    \/ SlashRaiseCap
    \/ SlashRegister
    \/ SlashSubmit
    \/ SlashTimeout
    \/ SlashAdvance
    \/ SlashDeactivate

SpecSlash == Init /\ [][NextSlash]_vars

\* C6 (as claimed): for every node record slashed_amount <= stake, however
\* many timeouts have slashed the node.
SlashingBound ==
    \A a \in DOMAIN contract.nodes :
        contract.nodes[a].slashed_amount <= contract.nodes[a].stake

\* ============================================================ a long-serving node
\* One operator who answers her tasks oldest first, a requester who keeps at
\* most MaxOutstanding tasks in flight, and a clock that passes the first
\* deadlines at once.
SeasonedRegister ==
    LET env == Env("alice", MIN_STAKE_YOCTO, now, 0)
    IN  /\ contract' = Commit(register_node(contract, env, "10.0.0.1", 8, 8, 25))
        /\ UNCHANGED <<now, agent, gateway>>

SeasonedHeartbeat ==
    LET env == Env("alice", 0, now, 0)
    IN  /\ contract' = Commit(heartbeat(contract, env))
        /\ UNCHANGED <<now, agent, gateway>>

SeasonedSubmit ==
    /\ contract.task_counter < MaxSeasonedTasks
    /\ Cardinality(ActiveIds(contract)) < MaxOutstanding
    /\ LET env == Env("carol", 1 + STORAGE_COST, now, 0)
       IN  /\ contract' = Commit(submit_task(contract, env, 9, 1, None))
           /\ UNCHANGED <<now, agent, gateway>>

SeasonedResult ==
    \E id \in ActiveIds(contract) :
        LET env == Env("alice", ONE_YOCTO, now, 0)
        IN  /\ \A j \in ActiveIds(contract) : id <= j
            /\ contract' = Commit(submit_result(contract, env, id, MAX_PROOF_HASH_LEN, 2))
            /\ UNCHANGED <<now, agent, gateway>>

SeasonedTimeout ==
    \E id \in ActiveIds(contract) :
        LET env == Env("carol", ONE_YOCTO, now, 0)
        IN  /\ \A j \in ActiveIds(contract) : id <= j
            /\ contract' = Commit(timeout_task(contract, env, id))
            /\ UNCHANGED <<now, agent, gateway>>

SeasonedAdvance ==
    /\ now = 0
    /\ now' = MaxTime
    /\ UNCHANGED <<contract, agent, gateway>>

NextSeasoned ==
    \/ SeasonedRegister
    \/ SeasonedHeartbeat
    \/ SeasonedSubmit
    \/ SeasonedResult
    \/ SeasonedTimeout
    \/ SeasonedAdvance

SpecSeasoned == Init /\ [][NextSeasoned]_vars

\* ---- C8
ReputationInRange(s) ==
    \A a \in DOMAIN s.nodes : s.nodes[a].reputation_score \in 0..MAX_REPUTATION

ReputationStep ==
    /\ \A a \in DOMAIN contract'.nodes \ DOMAIN contract.nodes :
          contract'.nodes[a].reputation_score = INITIAL_REPUTATION
    /\ \A a \in DOMAIN contract.nodes :
          LET before == contract.nodes[a].reputation_score
              after == contract'.nodes[a].reputation_score
          IN  /\ a \in DOMAIN contract'.nodes
              /\ after > before =>
                    /\ after <= before + REPUTATION_GAIN
                    /\ contract'.nodes[a].total_tasks_completed =
                          contract.nodes[a].total_tasks_completed + 1
              /\ after < before =>
                    /\ after >= before - REPUTATION_LOSS
                    /\ contract'.nodes[a].slashed_amount > contract.nodes[a].slashed_amount

\* C8: reputation bounds: every node's reputation_score is in 0..1000; a node
\* registers with 100; a step raises it by at most 10 and only with a
\* completed task, lowers it by at most 50 and only with a slash, and neither
\* takes it out of the range.
ReputationBounds ==
    /\ []ReputationInRange(contract)
    /\ [][ReputationStep]_vars

\* C8 witness: a node at the cap after more completions than the cap needs.
ReputationCapped ==
    \E a \in DOMAIN contract.nodes :
        /\ contract.nodes[a].reputation_score = MAX_REPUTATION
        /\ INITIAL_REPUTATION + REPUTATION_GAIN * contract.nodes[a].total_tasks_completed
              > MAX_REPUTATION

\* ---- C11
\* The well-formed submit_result calls of every account on every task ID.
ResultEffects ==
    { [env |-> e, task_id |-> id, proof_hash |-> h, output |-> o,
       r |-> submit_result(contract, e, id, h, o)] :
         e \in Envs({ONE_YOCTO}), id \in TaskIds,
         h \in {1, MAX_PROOF_HASH_LEN}, o \in {2, MAX_OUTPUT_LEN} }

\* The active tasks of s whose record in t is different.
ChangedTasks(s, t) ==
    {j \in ActiveIds(s) \cap ActiveIds(t) : s.active_tasks[j] # t.active_tasks[j]}

\* From s to t the scheduler did nothing, or assigned one pending task.
AtMostOneAssignment(s, t, current_time) ==
    /\ Cardinality(ChangedTasks(s, t)) <= 1
    /\ ChangedTasks(s, t) = {} => t.pending_tasks = s.pending_tasks
    /\ \A j \in ChangedTasks(s, t) :
          /\ s.active_tasks[j].status = "Pending"
          /\ PendingIds(t) = PendingIds(s) \ {j}
          /\ Len(t.pending_tasks) = Len(s.pending_tasks) - 1
          /\ \E n \in DOMAIN s.nodes :
                t.active_tasks[j] =
                    [s.active_tasks[j] EXCEPT !.status = "Assigned",
                                              !.assignee = Some(n),
                                              !.assigned_at = Some(current_time),
                                              !.timeout_at =
                                                  Some(current_time + s.task_timeout_duration)]

SameConfiguration(s, t) ==
    /\ t.task_counter = s.task_counter
    /\ t.min_stake = s.min_stake
    /\ t.owner_id = s.owner_id
    /\ t.paused = s.paused
    /\ t.max_tasks_per_node = s.max_tasks_per_node
    /\ t.task_timeout_duration = s.task_timeout_duration
    /\ t.nodes_keys = s.nodes_keys

\* C11: effects of a successful submit_result by node n on task t: t is
\* archived as Completed with the given output and proof_hash; n's
\* total_tasks_completed grows by 1 and its reputation becomes
\* min(1000, old + 10); n's balance, the supply and total_rewards_distributed
\* each grow by t.reward_amount; nothing else changes, except that the
\* scheduler may have assigned one pending task.
SubmitResultEffects ==
    \A o \in ResultEffects :
        Returned(o) =>
            LET n == o.env.predecessor
                id == o.task_id
                t == contract.active_tasks[id]
                s == o.r.st
            IN  /\ o.r.promise = None
                /\ ActiveIds(s) = ActiveIds(contract) \ {id}
                /\ ArchivedIds(s) = ArchivedIds(contract) \cup {id}
                /\ s.completed_tasks[id] = [t EXCEPT !.status = "Completed",
                                                    !.output = Some(o.output),
                                                    !.proof_hash = Some(o.proof_hash)]
                /\ \A j \in ArchivedIds(contract) :
                      s.completed_tasks[j] = contract.completed_tasks[j]
                /\ DOMAIN s.nodes = DOMAIN contract.nodes
                /\ s.nodes[n] =
                      [contract.nodes[n] EXCEPT
                          !.total_tasks_completed = @ + 1,
                          !.reputation_score = Min(MAX_REPUTATION, @ + REPUTATION_GAIN)]
                /\ \A m \in DOMAIN contract.nodes \ {n} : s.nodes[m] = contract.nodes[m]
                /\ DOMAIN s.token.accounts = DOMAIN contract.token.accounts
                /\ ft_balance_of(s, n) = ft_balance_of(contract, n) + t.reward_amount
                /\ \A a \in Accounts \ {n} : ft_balance_of(s, a) = ft_balance_of(contract, a)
                /\ ft_total_supply(s) = ft_total_supply(contract) + t.reward_amount
                /\ s.total_rewards_distributed =
                      contract.total_rewards_distributed + t.reward_amount
                /\ SameConfiguration(contract, s)
                /\ AtMostOneAssignment(contract, s, o.env.now)

\* C11 witness: a result is accepted in a state where another task waits and
\* the node has capacity, so the call also assigns the waiting task.
ResultFreesTheQueue ==
    \E o \in ResultEffects :
        /\ Returned(o)
        /\ ChangedTasks(contract, o.r.st) # {}
        /\ ft_total_supply(o.r.st) > ft_total_supply(contract)

\* ---- C12
\* The instants probed around a deadline T: the clock's range, and T - 1, T, T + 1.
ProbeTimes(T) == (0..MaxTime) \cup {T - 1, T, T + 1}

DeadlineSplits ==
    \A id \in Assigned(contract) :
        LET task == contract.active_tasks[id]
            T == Unwrap(task.timeout_at)
            n == Unwrap(task.assignee)
        IN  \A t \in ProbeTimes(T) :
                LET late == timeout_task(contract, Env("dave", ONE_YOCTO, t, 0), id)
                    unpaid == timeout_task(contract, Env("dave", 0, t, 0), id)
                    result == submit_result(contract, Env(n, ONE_YOCTO, t, 0), id,
                                            MAX_PROOF_HASH_LEN, 2)
                IN  /\ t <= T => /\ late.err = "Task has not timed out yet"
                                 /\ result.err = "ok"
                    /\ t > T => /\ late.err = "ok"
                                /\ result.err = "Task has timed out"
                    /\ unpaid.err # "ok"
                    /\ (late.err = "ok") # (result.err = "ok")

OutcomeIsFinal ==
    \A id \in ArchivedIds(contract) :
        /\ id \in ArchivedIds(contract')
        /\ contract'.completed_tasks[id].status = contract.completed_tasks[id].status

\* C12: deadline partition: for an Assigned task with deadline T, timeout_task
\* fails at every now <= T and, with the 1 yocto deposit, succeeds at every
\* now > T; the assignee's submit_result is accepted exactly when now <= T;
\* so at each instant exactly one of the two can succeed, and an archived
\* task keeps the one status it was archived with.
DeadlinePartition ==
    /\ []DeadlineSplits
    /\ [][OutcomeIsFinal]_vars

\* C12 witness: the clock stands on the deadline of an assigned task while
\* another task has already been archived.
ClockOnDeadline ==
    /\ \E id \in Assigned(contract) : Unwrap(contract.active_tasks[id].timeout_at) = now
    /\ ArchivedIds(contract) # {}

\* ---- C13
\* timeout_task by every account, with the deposit, on every active task and
\* on the first task IDs.
TimeoutEffects ==
    { [env |-> e, task_id |-> id, r |-> timeout_task(contract, e, id)] :
         e \in Envs({ONE_YOCTO}), id \in TaskIds \cup ActiveIds(contract) }

\* C13: effects of a successful timeout_task(t), whoever calls it: the
\* assignee's reputation becomes max(0, old - 50) and its slashed_amount grows
\* by stake / 10 (integer division); a transfer of t.reward_amount to
\* t.requester is scheduled; t is archived as TimedOut; no token is minted
\* and no other node or task changes.  Its success does not depend on the
\* caller.
TimeoutTaskEffects ==
    /\ \A o \in TimeoutEffects :
          Returned(o) =>
              LET id == o.task_id
                  t == contract.active_tasks[id]
                  n == Unwrap(t.assignee)
                  old == contract.nodes[n]
                  s == o.r.st
              IN  /\ o.r.promise = Transfer(t.requester, t.reward_amount)
                  /\ ActiveIds(s) = ActiveIds(contract) \ {id}
                  /\ ArchivedIds(s) = ArchivedIds(contract) \cup {id}
                  /\ s.completed_tasks[id] = [t EXCEPT !.status = "TimedOut"]
                  /\ \A j \in ArchivedIds(contract) :
                        s.completed_tasks[j] = contract.completed_tasks[j]
                  /\ \A j \in ActiveIds(s) : s.active_tasks[j] = contract.active_tasks[j]
                  /\ s.pending_tasks = contract.pending_tasks
                  /\ DOMAIN s.nodes = DOMAIN contract.nodes
                  /\ s.nodes[n] =
                        [old EXCEPT
                            !.reputation_score =
                                IF old.reputation_score >= REPUTATION_LOSS
                                THEN old.reputation_score - REPUTATION_LOSS ELSE 0,
                            !.slashed_amount = @ + (old.stake \div SLASH_DIVISOR)]
                  /\ \A m \in DOMAIN contract.nodes \ {n} : s.nodes[m] = contract.nodes[m]
                  /\ s.token = contract.token
                  /\ s.total_rewards_distributed = contract.total_rewards_distributed
                  /\ SameConfiguration(contract, s)
    /\ \A o \in TimeoutEffects :
          o.r = timeout_task(contract, Env(owner_id, ONE_YOCTO, now, 0), o.task_id)

\* C13 witness: a task of a node whose reputation is already below the loss
\* is past its deadline, and an account that is neither its requester nor
\* its assignee times it out.
SlashAtTheFloor ==
    \E o \in TimeoutEffects :
        /\ Returned(o)
        /\ o.env.predecessor = "dave"
        /\ \E a \in DOMAIN contract.nodes :
              /\ contract.active_tasks[o.task_id].assignee = Some(a)
              /\ contract.nodes[a].reputation_score < REPUTATION_LOSS
              /\ contract.nodes[a].slashed_amount > 0

\* ---- C14
\* What deactivate_node returns to the node: its stake less what was slashed.
StakeLeft(node) ==
    IF node.stake >= node.slashed_amount THEN node.stake - node.slashed_amount ELSE 0

MayDeactivate(o) ==
    /\ o.env.deposit = ONE_YOCTO
    /\ o.env.predecessor \in DOMAIN contract.nodes
    /\ contract.nodes[o.env.predecessor].is_active
    /\ \A id \in ActiveIds(contract) :
          ~(/\ contract.active_tasks[id].assignee = Some(o.env.predecessor)
            /\ contract.active_tasks[id].status \in {"Assigned", "InProgress"})

\* C14: deactivate_node succeeds exactly when the call carries 1 yocto, the
\* caller's node exists and is active and has no task in Assigned or
\* InProgress; then the node is marked inactive, nothing else changes and a
\* transfer of stake - slashed_amount, floored at 0, to the node is scheduled
\* (none when that amount is 0); in every other case, in particular while the
\* node has an assigned task, the call panics and nothing changes.
DeactivationGuard ==
    \A o \in DeactivateOutcomes :
        LET a == o.env.predecessor
        IN  /\ Returned(o) <=> MayDeactivate(o)
            /\ Returned(o) =>
                  /\ o.r.st = [contract EXCEPT !.nodes[a].is_active = FALSE]
                  /\ o.r.promise =
                        IF StakeLeft(contract.nodes[a]) > 0
                        THEN Transfer(a, StakeLeft(contract.nodes[a]))
                        ELSE None
            /\ Panicked(o) => o.r.st = contract /\ o.r.promise = None

\* C14 witness: a slashed node with assigned tasks, whose deactivation is
\* refused for that reason.
DeactivationRefused ==
    /\ \E a \in DOMAIN contract.nodes : contract.nodes[a].slashed_amount > 0
    /\ \E o \in DeactivateOutcomes : o.r.err = "Cannot deactivate node with active tasks"

AdminFields(s) == <<s.min_stake, s.max_tasks_per_node, s.task_timeout_duration, s.paused>>

ByOwnerWithDeposit(e) == e.predecessor = contract.owner_id /\ e.deposit = ONE_YOCTO

\* Each admin method on its own: it returns exactly for the owner with 1
\* yocto and a valid argument, then writes its one field, else writes nothing.
AdminMethodsGuarded ==
    \A e \in Envs(YoctoDeposits) :
        /\ \A n \in MinStakes :
              LET r == update_min_stake(contract, e, n)
              IN  /\ r.err = "ok" <=> (ByOwnerWithDeposit(e) /\ n > 0)
                  /\ r.st = IF r.err = "ok" THEN [contract EXCEPT !.min_stake = n] ELSE contract
                  /\ r.promise = None
        /\ \A n \in MaxTasksValues :
              LET r == update_max_tasks_per_node(contract, e, n)
              IN  /\ r.err = "ok" <=>
                        (ByOwnerWithDeposit(e) /\ n \in 1..MAX_TASKS_PER_NODE_LIMIT)
                  /\ r.st = IF r.err = "ok" THEN [contract EXCEPT !.max_tasks_per_node = n]
                            ELSE contract
                  /\ r.promise = None
        /\ \A n \in TimeoutValues :
              LET r == update_task_timeout(contract, e, n)
              IN  /\ r.err = "ok" <=>
                        (ByOwnerWithDeposit(e) /\ n \in MIN_TIMEOUT_DURATION..MAX_TIMEOUT_DURATION)
                  /\ r.st = IF r.err = "ok" THEN [contract EXCEPT !.task_timeout_duration = n]
                            ELSE contract
                  /\ r.promise = None
        /\ LET r == pause_contract(contract, e)
           IN  /\ r.err = "ok" <=> (ByOwnerWithDeposit(e) /\ ~contract.paused)
               /\ r.st = IF r.err = "ok" THEN [contract EXCEPT !.paused = TRUE] ELSE contract
               /\ r.promise = None
        /\ LET r == unpause_contract(contract, e)
           IN  /\ r.err = "ok" <=> (ByOwnerWithDeposit(e) /\ contract.paused)
               /\ r.st = IF r.err = "ok" THEN [contract EXCEPT !.paused = FALSE] ELSE contract
               /\ r.promise = None
        /\ \A n \in WithdrawAmounts, b \in AccountBalances :
              LET r == emergency_withdraw(contract, [e EXCEPT !.account_balance = b], n)
              IN  /\ r.err = "ok" <=> (ByOwnerWithDeposit(e) /\ contract.paused /\ n <= b)
                  /\ r.st = contract
                  /\ r.promise = IF r.err = "ok" THEN Transfer(contract.owner_id, n) ELSE None

\* No other method writes the four admin fields.
OthersKeepAdminFields ==
    /\ \A o \in RegisterOutcomes : AdminFields(o.r.st) = AdminFields(contract)
    /\ \A o \in HeartbeatOutcomes : AdminFields(o.r.st) = AdminFields(contract)
    /\ \A o \in DeactivateOutcomes : AdminFields(o.r.st) = AdminFields(contract)
    /\ \A o \in SubmitTaskOutcomes : AdminFields(o.r.st) = AdminFields(contract)
    /\ \A o \in SubmitResultOutcomes : AdminFields(o.r.st) = AdminFields(contract)
    /\ \A o \in TimeoutOutcomes : AdminFields(o.r.st) = AdminFields(contract)
    /\ \A o \in TransferOutcomes : AdminFields(o.r.st) = AdminFields(contract)

\* C16: owner-only administration: min_stake, max_tasks_per_node,
\* task_timeout_duration and paused change only through a call by owner_id
\* with exactly 1 yocto and a valid argument (min_stake > 0, max tasks in
\* 1..100, timeout in 5 min..24 h); emergency_withdraw also needs paused and
\* amount <= contract balance; the same call by another account or without
\* the deposit panics and changes nothing.
OwnerOnlyAdministration ==
    /\ AdminMethodsGuarded
    /\ OthersKeepAdminFields

\* C16 witness: the owner has paused the contract and changed the timeout,
\* and a node operator's admin call with the deposit is refused.
AdministeredAndRefused ==
    /\ contract.paused
    /\ contract.task_timeout_duration # MAX_TASK_TIMEOUT
    /\ DOMAIN contract.nodes # {}
    /\ \E a \in DOMAIN contract.nodes :
          emergency_withdraw(contract, Env(a, ONE_YOCTO, now, 5), 5).err
              = "Only owner can call this method"

\* ============================================================ the priority queue
\* One operator, an owner who may limit her to one task at a time, and a
\* requester who submits tasks of every priority; no time passes.
PriorityRegister ==
    LET env == Env("alice", MIN_STAKE_YOCTO, now, 0)
    IN  /\ contract' = Commit(register_node(contract, env, "10.0.0.1", 8, 8, 25))
        /\ UNCHANGED <<now, agent, gateway>>

PriorityLimit ==
    LET env == Env(owner_id, ONE_YOCTO, now, 0)
    IN  /\ contract' = Commit(update_max_tasks_per_node(contract, env, 1))
        /\ UNCHANGED <<now, agent, gateway>>

PrioritySubmit ==
    /\ contract.task_counter < MaxPriorityTasks
    /\ \E p \in TaskPriority :
          LET env == Env("carol", 1 + STORAGE_COST, now, 0)
          IN  /\ contract' = Commit(submit_task(contract, env, 9, 1, Some(p)))
              /\ UNCHANGED <<now, agent, gateway>>

PriorityResult ==
    \E id \in ActiveIds(contract) :
        LET env == Env("alice", ONE_YOCTO, now, 0)
        IN  /\ contract' = Commit(submit_result(contract, env, id, MAX_PROOF_HASH_LEN, 2))
            /\ UNCHANGED <<now, agent, gateway>>

NextPriority ==
    \/ PriorityRegister
    \/ PriorityLimit
    \/ PrioritySubmit
    \/ PriorityResult

SpecPriority == Init /\ [][NextPriority]_vars

\* ---- C17
\* The ranking the scheduler is to follow.
PriorityRank(p) ==
    CASE p = "Urgent" -> 4
      [] p = "High" -> 3
      [] p = "Normal" -> 2
      [] p = "Low" -> 1

NewlyAssigned(s, t) ==
    {id \in ActiveIds(s) \cap ActiveIds(t) :
        s.active_tasks[id].status = "Pending" /\ t.active_tasks[id].status = "Assigned"}

\* A dispatch run in the current state assigns a task that ranks at least as
\* high as every task pending at that dispatch.
DispatchPicksHighest ==
    LET t == try_assign_next_task(contract, now)
    IN  \A id \in NewlyAssigned(contract, t) :
            \A j \in PendingIds(contract) :
                PriorityRank(contract.active_tasks[id].priority)
                    >= PriorityRank(contract.active_tasks[j].priority)

\* A step that assigns a task leaves no task of a higher rank pending (the
\* tasks pending at the dispatch are the assigned one and those still pending).
AssignedOutranksPending ==
    \A id \in Assigned(contract') \ Assigned(contract) :
        \A j \in PendingIds(contract') :
            PriorityRank(contract'.active_tasks[id].priority)
                >= PriorityRank(contract'.active_tasks[j].priority)

\* C17: priority selection: whenever the scheduler assigns a task, its
\* priority value (Urgent 4 > High 3 > Normal 2 > Low 1) is at least that of
\* every task that was pending at that dispatch.
PrioritySelection ==
    /\ []DispatchPicksHighest
    /\ [][AssignedOutranksPending]_vars

\* C17 witness: an Urgent task has been assigned while a Low task submitted
\* before it is still pending.
UrgentOvertookLow ==
    \E low \in PendingIds(contract), urgent \in Assigned(contract) :
        /\ low < urgent
        /\ contract.active_tasks[low].priority = "Low"
        /\ contract.active_tasks[urgent].priority = "Urgent"

\* ---- C18
\* Scenario 4 starts here: not paused, nothing pending, a live node with free
\* capacity, and room for two more tasks.
ScenarioFourStart ==
    /\ ~contract.paused
    /\ contract.pending_tasks = <<>>
    /\ get_available_node(contract, now) # None
    /\ contract.task_counter + 2 <= MaxPriorityTasks

\* The requester's two calls: Low, then Urgent.
AfterLow ==
    submit_task(contract, Env("carol", 1 + STORAGE_COST, now, 0), 9, 1, Some("Low")).st
AfterLowThenUrgent ==
    submit_task(AfterLow, Env("carol", 1 + STORAGE_COST, now, 0), 9, 1, Some("Urgent")).st

ExecutionResults ==
    [ proof_hash : {0, AGENT_PROOF_HASH_LEN - 1, AGENT_PROOF_HASH_LEN, AGENT_PROOF_HASH_LEN + 1},
      hex        : BOOLEAN,
      output     : {0, 2, MAX_OUTPUT_LEN, MAX_OUTPUT_LEN + 1,
                    AGENT_MAX_OUTPUT_LEN, AGENT_MAX_OUTPUT_LEN + 1},
      json       : BOOLEAN ]

\* The results that pass the agent's validation.
ValidResults == {x \in ExecutionResults : validate_execution_result(x) = "ok"}

\* The jobs the agent of a node can be running: a task with status Assigned
\* that the coordinator has assigned to the node, and a validated result.
AgentJobs ==
    { [task_id |-> id, node |-> Unwrap(contract.active_tasks[id].assignee), result |-> x] :
        id \in {j \in ActiveIds(contract) : contract.active_tasks[j].status = "Assigned"},
        x \in ValidResults }

\* C19 (as claimed): when the agent of a node has run a task with status
\* Assigned, the result has passed the agent's validation and the agent's
\* submit_result call reaches the coordinator no later than timeout_at, the
\* coordinator accepts the call, archives the task as Completed and rewards
\* the node.
AgentResultAccepted ==
    \A j \in AgentJobs :
        LET task == contract.active_tasks[j.task_id]
            r == NearClient_submit_result(contract, j.node, now, j.task_id,
                                          j.result.proof_hash, j.result.output)
        IN  now <= Unwrap(task.timeout_at) =>
                /\ r.err = "ok"
                /\ j.task_id \in ArchivedIds(r.st)
                /\ r.st.completed_tasks[j.task_id].status = "Completed"
                /\ ft_balance_of(r.st, j.node) =
                      ft_balance_of(contract, j.node) + task.reward_amount


\* ------------------------------------------------------------ the agent alone
\* The agent's polling loop on its own.  The coordinator behind the RPC
\* endpoint is the agent's environment: the response to each view call and
\* the fate of each transaction are inputs.
MaxConcurrentValues == {0, 1, DEFAULT_MAX_CONCURRENT_TASKS}

\* The entries of a get_assigned_tasks response, as JSON: reward_amount is a
\* JSON string or a JSON number.
PolledTasks ==
    [ id            : {0, 1},
      status        : {"Assigned", "InProgress"},
      description   : {"valid", "invalid"},
      reward_amount : {"string", "number"} ]

Responses ==
    {<<>>} \cup {<<v>> : v \in PolledTasks}
           \cup {<<v, w>> : v \in PolledTasks, w \in PolledTasks}

\* AiEngine::execute_task fails, or returns an execution result.
BackendOutcomes == {None} \cup {Some(x) : x \in ExecutionResults}

InitAgent ==
    /\ contract = new(owner_id)
    /\ now = 0
    /\ gateway = AppState_new(Repository, TRUE, GatewayClock)
    /\ \E n \in MaxConcurrentValues : agent = NodeDaemon_new(n)

\* task_polling_loop ticks and process_pending_tasks fetches the assigned
\* tasks: an error or an empty list ends the round.
AgentPoll ==
    /\ agent.pc = "tick"
    /\ \E response \in Responses :
          LET tasks == NearClient_get_assigned_tasks(response)
          IN  agent' = IF IsSome(tasks) /\ Unwrap(tasks) # <<>>
                       THEN [agent EXCEPT !.tasks = Unwrap(tasks),
                                          !.processed_count = 0,
                                          !.pc = "loop"]
                       ELSE agent
    /\ UNCHANGED <<contract, now, gateway>>

\* for task in tasks: a task with status Assigned takes the processor's lock
\* and calls execute_task; any other task is passed over.
AgentNextTask ==
    /\ agent.pc = "loop"
    /\ agent.tasks # <<>>
    /\ agent' = IF Head(agent.tasks).status = "Assigned"
                THEN [agent EXCEPT !.locked = TRUE, !.pc = "acquire"]
                ELSE [agent EXCEPT !.tasks = Tail(@)]
    /\ UNCHANGED <<contract, now, gateway>>

\* execute_task waits for a permit of the semaphore and takes it.
AgentAcquire ==
    /\ agent.pc = "acquire"
    /\ permit_available(agent.available_permits)
    /\ agent' = [agent EXCEPT !.available_permits = @ - 1, !.pc = "execute"]
    /\ UNCHANGED <<contract, now, gateway>>

\* execute_task validates the task, runs the backend and validates the
\* result; when it returns, with the result or with an error, the permit is
\* dropped, and so is the lock: before the result is submitted.
AgentExecute ==
    /\ agent.pc = "execute"
    /\ \E outcome \in BackendOutcomes :
          LET task == Head(agent.tasks)
              done == /\ validate_task(task)
                      /\ IsSome(outcome)
                      /\ validate_execution_result(Unwrap(outcome)) = "ok"
          IN  agent' = IF done
                       THEN [agent EXCEPT !.available_permits = @ + 1,
                                          !.locked = FALSE,
                                          !.result = outcome,
                                          !.pc = "submit"]
                       ELSE [agent EXCEPT !.available_permits = @ + 1,
                                          !.locked = FALSE,
                                          !.tasks = Tail(@),
                                          !.pc = "loop"]
    /\ UNCHANGED <<contract, now, gateway>>

\* near_client.submit_result: the transaction succeeds and the task counts as
\* processed, or it fails and the error is logged.
AgentSubmit ==
    /\ agent.pc = "submit"
    /\ \E accepted \in BOOLEAN :
          agent' = [agent EXCEPT !.processed_count = IF accepted THEN @ + 1 ELSE @,
                                 !.result = None,
                                 !.tasks = Tail(@),
                                 !.pc = "loop"]
    /\ UNCHANGED <<contract, now, gateway>>

\* The list is exhausted: process_pending_tasks returns processed_count to
\* task_polling_loop, which waits for the next tick.
AgentReturn ==
    /\ agent.pc = "loop"
    /\ agent.tasks = <<>>
    /\ agent' = [agent EXCEPT !.pc = "tick"]
    /\ UNCHANGED <<contract, now, gateway>>

NextAgent ==
    \/ AgentPoll
    \/ AgentNextTask
    \/ AgentAcquire
    \/ AgentExecute
    \/ AgentSubmit
    \/ AgentReturn

SpecAgent == InitAgent /\ [][NextAgent]_vars

\* ---- C20
\* The jobs that have acquired an execution permit and have not finished:
\* from the acquisition, through the backend's execution, to the end of the
\* result's submission.
JobsInFlight(a) == IF a.pc \in {"execute", "submit"} THEN 1 ELSE 0

\* C20: agent concurrency bound: in every reachable state of the agent the
\* number of jobs that have acquired a permit and not yet finished is at most
\* max_concurrent_tasks, and get_current_load() = max_concurrent_tasks -
\* available permits lies in [0, max_concurrent_tasks].
AgentConcurrencyBound ==
    /\ JobsInFlight(agent) <= agent.max_concurrent_tasks
    /\ get_current_load(agent) >= 0
    /\ get_current_load(agent) <= agent.max_concurrent_tasks

\* C20 witness: with one permit configured, the agent has submitted one
\* result in this round and now runs the next job on the only permit.
PermitHeldAtCapacity ==
    /\ agent.max_concurrent_tasks = 1
    /\ agent.pc = "execute"
    /\ agent.processed_count = 1
    /\ is_at_capacity(agent)
    /\ get_current_load(agent) = 1

\* ------------------------------------------------------------ two nodes at work
\* alice and bob register, the owner may limit a node to one task, tasks of
\* one priority come in, both nodes answer, and the clock moves one heartbeat
\* period on, after which a node is live again only once it has sent a
\* heartbeat.
SelectionRegister ==
    \E x \in {[caller |-> "alice", public_ip |-> "10.0.0.1"],
              [caller |-> "bob", public_ip |-> "10.0.0.2"]} :
        LET env == Env(x.caller, MIN_STAKE_YOCTO, now, 0)
        IN  /\ contract' = Commit(register_node(contract, env, x.public_ip, 8, 8, 25))
            /\ UNCHANGED <<now, agent, gateway>>

SelectionLimit ==
    LET env == Env(owner_id, ONE_YOCTO, now, 0)
    IN  /\ contract' = Commit(update_max_tasks_per_node(contract, env, 1))
        /\ UNCHANGED <<now, agent, gateway>>

SelectionSubmit ==
    /\ contract.task_counter < MaxSelectionTasks
    /\ LET env == Env("carol", 1 + STORAGE_COST, now, 0)
       IN  /\ contract' = Commit(submit_task(contract, env, 9, 1, None))
           /\ UNCHANGED <<now, agent, gateway>>

SelectionResult ==
    \E a \in NodeOperators, id \in ActiveIds(contract) :
        LET env == Env(a, ONE_YOCTO, now, 0)
        IN  /\ contract' = Commit(submit_result(contract, env, id, MAX_PROOF_HASH_LEN, 2))
            /\ UNCHANGED <<now, agent, gateway>>

SelectionHeartbeat ==
    \E a \in NodeOperators :
        /\ contract' = Commit(heartbeat(contract, Env(a, 0, now, 0)))
        /\ UNCHANGED <<now, agent, gateway>>

SelectionAdvance ==
    /\ now = 0
    /\ now' = HEARTBEAT_TIMEOUT
    /\ UNCHANGED <<contract, agent, gateway>>

NextSelection ==
    \/ SelectionRegister
    \/ SelectionLimit
    \/ SelectionSubmit
    \/ SelectionResult
    \/ SelectionHeartbeat
    \/ SelectionAdvance

SpecSelection == Init /\ [][NextSelection]_vars

\* ---- C28
\* The tasks of s in Assigned or InProgress that node n holds.
HeldBy(s, n) ==
    {id \in ActiveIds(s) : /\ s.active_tasks[id].status \in {"Assigned", "InProgress"}
                           /\ s.active_tasks[id].assignee = Some(n)}

\* Node n of s is active and its last heartbeat is less than 5 minutes old.
LiveAt(s, n, t) ==
    s.nodes[n].is_active /\ t - s.nodes[n].last_heartbeat < HEARTBEAT_TIMEOUT

\* C28: node selection: a step that assigns a task to node n leaves n live,
\* holding at most max_tasks_per_node tasks with the new one (fewer than
\* max_tasks_per_node before it), and no other live node under the cap with a
\* strictly higher reputation.  The dispatch is the last thing the operation
\* does, so apart from the new assignment the state after the step is the
\* state the scheduler has seen.
NodeSelection ==
    [][\A id \in Assigned(contract') \ Assigned(contract) :
          LET s == contract'
              n == Unwrap(s.active_tasks[id].assignee)
          IN  /\ n \in DOMAIN s.nodes
              /\ LiveAt(s, n, now)
              /\ Cardinality(HeldBy(s, n) \ {id}) < s.max_tasks_per_node
              /\ \A m \in DOMAIN s.nodes \ {n} :
                    (LiveAt(s, m, now) /\ Cardinality(HeldBy(s, m)) < s.max_tasks_per_node)
                        => s.nodes[m].reputation_score <= s.nodes[n].reputation_score]_vars

\* C28 witness: bob, registered second and with the lower reputation, has
\* been given a task while alice, live and with the higher reputation, is at
\* the cap.
LowerReputationServes ==
    /\ DOMAIN contract.nodes = {"alice", "bob"}
    /\ contract.nodes["alice"].reputation_score > contract.nodes["bob"].reputation_score
    /\ LiveAt(contract, "alice", now)
    /\ Cardinality(HeldBy(contract, "alice")) = contract.max_tasks_per_node
    /\ HeldBy(contract, "bob") # {}

\* ---- C29
\* The successful submit_task and submit_result calls in the current state,
\* each with the account whose result the call has archived (None for
\* submit_task) and the number of tasks it has added to the pending set.
DispatchingCalls ==
    { [r |-> submit_task(contract, Env("carol", 1 + STORAGE_COST, now, 0), 9, 1, None),
       freed |-> None, added |-> 1] }
    \cup { [r |-> submit_result(contract, Env(a, ONE_YOCTO, now, 0), id, MAX_PROOF_HASH_LEN, 2),
            freed |-> Some(a), added |-> 0] : a \in NodeOperators, id \in ActiveIds(contract) }

\* The tasks node n holds when the call's dispatch runs.
HeldAtDispatch(o, n) ==
    Cardinality(HeldBy(contract, n)) - (IF o.freed = Some(n) THEN 1 ELSE 0)

\* C29 (as claimed): after every successful submit_task and submit_result,
\* if at dispatch time some live node, whatever its reputation, holds fewer
\* than max_tasks_per_node tasks and the pending set is not empty, one
\* pending task has been assigned by the end of the operation.
DispatchProgress ==
    \A o \in DispatchingCalls :
        (/\ o.r.err = "ok"
         /\ Len(contract.pending_tasks) + o.added > 0
         /\ \E n \in DOMAIN contract.nodes :
               /\ LiveAt(contract, n, now)
               /\ HeldAtDispatch(o, n) < contract.max_tasks_per_node)
        => Len(o.r.st.pending_tasks) = Len(contract.pending_tasks) + o.added - 1

\* ---- C30
\* C30 (as claimed): FIFO tie-break: a step that assigns a task leaves no
\* task of the same priority and a lower ID pending, so that tasks of equal
\* priority are assigned in the order of their IDs.
FifoTieBreak ==
    [][\A id \in Assigned(contract') \ Assigned(contract) :
          \A j \in PendingIds(contract') :
              contract'.active_tasks[j].priority = contract'.active_tasks[id].priority
                  => id < j]_vars

\* ------------------------------------------------------------ the limiter alone
\* check_rate_limit called as the gateway calls it, with a limiter made for
\* the call, under small configurations (per minute, per hour, per day,
\* burst) so that every horizon is reached within MaxChecks calls.
LimiterConfigs ==
    { [ requests_per_minute |-> 2, requests_per_hour |-> 3,
        requests_per_day |-> 9, burst_limit |-> 9 ],
      [ requests_per_minute |-> 2, requests_per_hour |-> 9,
        requests_per_day |-> 3, burst_limit |-> 9 ],
      [ requests_per_minute |-> 3, requests_per_hour |-> 9,
        requests_per_day |-> 9, burst_limit |-> 2 ] }
Identifiers == { <<"ip", "1.2.3.4">>, <<"user", "u1">> }

InitLimiter ==
    /\ contract = new(owner_id)
    /\ now = 0
    /\ agent = NodeDaemon_new(DEFAULT_MAX_CONCURRENT_TASKS)
    /\ \E config \in LimiterConfigs :
           gateway = [AppState_new(Repository, TRUE, LimiterClock) EXCEPT !.config = config]

\* One call of check_rate_limit; the log keeps what it was asked and answered.
LimiterCheck ==
    /\ Len(gateway.log) < MaxChecks
    /\ \E identifier \in Identifiers, reachable \in BOOLEAN :
           LET logged(checked) ==
                   [gateway EXCEPT !.redis = checked.conn,
                                   !.log = Append(@, [ identifier |-> identifier,
                                                       at         |-> gateway.clock,
                                                       path       |-> checked.path,
                                                       info       |-> checked.info ])]
           IN  gateway' = logged(check_rate_limit(RateLimiter_new, gateway.redis, reachable,
                                                  identifier, gateway.config, gateway.clock))
    /\ UNCHANGED <<contract, now, agent>>

\* The wall clock reaches the next second of the schedule.
GatewayAdvance ==
    /\ gateway.schedule # <<>>
    /\ gateway' = [gateway EXCEPT !.clock = Head(gateway.schedule),
                                  !.schedule = Tail(gateway.schedule)]
    /\ UNCHANGED <<contract, now, agent>>

NextLimiter == LimiterCheck \/ GatewayAdvance

SpecLimiter == InitLimiter /\ [][NextLimiter]_vars

\* The calls of the log a counter of horizon secs has counted up to call i:
\* those of the same principal and the same bucket that reached the primary
\* store and were not stopped at a shorter horizon.
PrimaryCalls == { i \in DOMAIN gateway.log : gateway.log[i].path = "primary" }
SameBucket(i, j, secs) ==
    /\ gateway.log[i].identifier = gateway.log[j].identifier
    /\ gateway.log[i].at \div secs = gateway.log[j].at \div secs
MinuteCount(i) ==
    Cardinality({ j \in PrimaryCalls : j <= i /\ SameBucket(i, j, 60) })
HourCount(i) ==
    Cardinality({ j \in PrimaryCalls :
                      /\ j <= i
                      /\ SameBucket(i, j, 3600)
                      /\ MinuteCount(j) <= gateway.config.requests_per_minute })
DayCount(i) ==
    Cardinality({ j \in PrimaryCalls :
                      /\ j <= i
                      /\ SameBucket(i, j, 86400)
                      /\ MinuteCount(j) <= gateway.config.requests_per_minute
                      /\ HourCount(j) <= gateway.config.requests_per_hour })
Allowed(i) == gateway.log[i].info.retry_after = None
LimitedBy(i, secs, limit) ==
    /\ gateway.log[i].info.limit = limit
    /\ gateway.log[i].info.remaining = 0
    /\ gateway.log[i].info.reset_time = (gateway.log[i].at \div secs + 1) * secs
    /\ gateway.log[i].info.retry_after = Some(secs - (gateway.log[i].at % secs))
    /\ secs - (gateway.log[i].at % secs) \in 1 .. secs
AllowedInBucket(i, secs) ==
    Cardinality({ j \in PrimaryCalls : SameBucket(i, j, secs) /\ Allowed(j) })

\* C24: on the primary path, for every principal and each of the minute, the
\* hour and the day, at most the horizon's limit of calls are allowed within
\* one epoch bucket, and a call whose counter goes above the limit is denied
\* with remaining 0, reset at the end of the bucket and retry_after the
\* seconds left in the bucket, between 1 and the horizon.
FixedWindowCap ==
    \A i \in PrimaryCalls :
        /\ AllowedInBucket(i, 60) <= gateway.config.requests_per_minute
        /\ AllowedInBucket(i, 3600) <= gateway.config.requests_per_hour
        /\ AllowedInBucket(i, 86400) <= gateway.config.requests_per_day
        /\ (MinuteCount(i) > gateway.config.requests_per_minute)
               => LimitedBy(i, 60, gateway.config.requests_per_minute)
        /\ (/\ MinuteCount(i) <= gateway.config.requests_per_minute
            /\ HourCount(i) > gateway.config.requests_per_hour)
               => LimitedBy(i, 3600, gateway.config.requests_per_hour)
        /\ (/\ MinuteCount(i) <= gateway.config.requests_per_minute
            /\ HourCount(i) <= gateway.config.requests_per_hour
            /\ DayCount(i) > gateway.config.requests_per_day)
               => LimitedBy(i, 86400, gateway.config.requests_per_day)

\* A fourth call of the hour is stopped by the hour's counter in a minute
\* whose own counter is within its limit.
HourCounterDenies ==
    \E i \in PrimaryCalls :
        /\ MinuteCount(i) <= gateway.config.requests_per_minute
        /\ HourCount(i) > gateway.config.requests_per_hour
        /\ ~Allowed(i)

\* C25 as stated: between two successive calls of one principal in the same
\* minute bucket, remaining never increases.
Successive(i, j) ==
    /\ i < j
    /\ SameBucket(i, j, 60)
    /\ ~ \E k \in DOMAIN gateway.log :
           i < k /\ k < j /\ gateway.log[k].identifier = gateway.log[i].identifier
RateLimitMonotonicity ==
    \A i, j \in DOMAIN gateway.log :
        Successive(i, j) => gateway.log[j].info.remaining <= gateway.log[i].info.remaining

\* C25, amended: among the calls of one principal in the same minute bucket
\* that were answered by the primary store and not stopped by the burst set,
\* remaining never increases from an earlier call to a later one.
StoppedByBurst(i) ==
    /\ ~Allowed(i)
    /\ MinuteCount(i) <= gateway.config.requests_per_minute
    /\ HourCount(i) <= gateway.config.requests_per_hour
    /\ DayCount(i) <= gateway.config.requests_per_day
CountedCalls == { i \in PrimaryCalls : ~StoppedByBurst(i) }
PrimaryMonotonicity ==
    \A i, j \in CountedCalls :
        (i < j /\ SameBucket(i, j, 60))
            => gateway.log[j].info.remaining <= gateway.log[i].info.remaining

\* Two counted calls of one bucket, the later with less remaining, and a
\* third, fourth call of the bucket denied with nothing remaining.
RemainingRunsDown ==
    \E i, j, k \in CountedCalls :
        /\ i < j /\ j < k
        /\ SameBucket(i, j, 60) /\ SameBucket(j, k, 60)
        /\ gateway.log[j].info.remaining < gateway.log[i].info.remaining
        /\ ~Allowed(k)

\* ------------------------------------------------------------ scenario six
\* The unauthenticated client of scenario 6 asks for /api/v1/nodes from
\* 1.2.3.4, with the primary store reachable, at the seconds of SixClock.
ScenarioSixRequest ==
    [ path          |-> <<"api", "v1", "nodes">>,
      authorization |-> None,
      ip            |-> "1.2.3.4",
      body          |-> None,
      extensions    |-> None ]

InitSix ==
    /\ contract = new(owner_id)
    /\ now = 0
    /\ agent = NodeDaemon_new(DEFAULT_MAX_CONCURRENT_TASKS)
    /\ gateway = AppState_new(Repository, TRUE, SixClock)

\* One request through the stack; last keeps the exchange.
SixRequest ==
    /\ gateway.served < MaxSixRequests
    /\ LET served(answered) ==
               [answered.g EXCEPT !.served = @ + 1,
                                  !.last = Some([ request  |-> ScenarioSixRequest,
                                                  at       |-> gateway.clock,
                                                  response |-> answered.response ])]
       IN  gateway' = served(app(gateway, ScenarioSixRequest, TRUE))
    /\ UNCHANGED <<contract, now, agent>>

NextSix == SixRequest \/ GatewayAdvance

SpecSix == InitSix /\ [][NextSix]_vars

\* C26 as stated: the 101st request of a 60-second window is answered 429
\* with a Retry-After header of at most 60.
ScenarioSix ==
    gateway.served = 101
        => /\ gateway.last[1].response.status = 429
           /\ "Retry-After" \in DOMAIN gateway.last[1].response.headers
           /\ gateway.last[1].response.headers["Retry-After"] <= 60

\* C27 as stated: a request the limiter denies reaches no handler.
RateLimitShortCircuit ==
    gateway.limited => gateway.ran = None

\* ------------------------------------------------------------ requests to the gateway
\* Bearer tokens: what verification says of each (signed, expired) and what
\* it carries.
Token(signed, expired, sub, token_type, key) ==
    [ signed |-> signed, expired |-> expired, sub |-> sub,
      token_type |-> token_type, key |-> key ]
Tokens ==
    { Token(TRUE, FALSE, "u1", "access", "-"),
      Token(TRUE, FALSE, "u2", "access", "-"),
      Token(TRUE, FALSE, "u3", "access", "-"),
      Token(TRUE, FALSE, "u9", "access", "-"),
      Token(TRUE, TRUE, "u1", "access", "-"),
      Token(FALSE, FALSE, "u3", "access", "-"),
      Token(TRUE, FALSE, "u1", "api_key", "k1"),
      Token(TRUE, FALSE, "u1", "api_key", "k2"),
      Token(TRUE, FALSE, "u1", "api_key", "k3"),
      Token(TRUE, FALSE, "u1", "api_key", "k9"),
      Token(TRUE, TRUE, "u1", "api_key", "k1") }
Authorizations ==
    {None, Some([scheme |-> "Basic", token |-> Token(TRUE, FALSE, "u1", "access", "-")])}
        \cup { Some([scheme |-> "Bearer", token |-> token]) : token \in Tokens }
Paths ==
    { <<"health">>,
      <<"api", "v1", "auth", "refresh">>,
      <<"api", "v1", "tasks">>,
      <<"api", "v1", "tasks", "t1", "cancel">>,
      <<"api", "v1", "nodes">>,
      <<"api", "v1", "nodes", "n1">>,
      <<"api", "v1", "nodes", "n1", "tasks">>,
      <<"api", "v1", "nodes", "admin", "n1">>,
      <<"api", "v1", "user", "profile">>,
      <<"api", "v1", "admin", "users">>,
      <<"api", "v1", "admin", "system", "metrics">> }

\* Wallet logins at second t: the parts of the message between '|' and the
\* timestamps around the 300 s window and at the ends of the i64 range.
Word == [numeric |-> FALSE, value |-> 0]
Number(n) == [numeric |-> TRUE, value |-> n]
Login(verifies, message) ==
    [ account_id         |-> "alice.near",
      account_id_parses  |-> TRUE,
      public_key_parses  |-> TRUE,
      signature_parses   |-> TRUE,
      signature_verifies |-> verifies,
      message            |-> message ]
LoginTimestamps(t) ==
    {t, t - 300, t - 301, t + 300, t + 301, t + I64_MIN, I64_MIN, I64_MAX}
LoginBodies(t) ==
    { Login(TRUE, <<Word, Number(ts)>>) : ts \in LoginTimestamps(t) }
        \cup { Login(FALSE, <<Word, Number(t)>>),
               Login(TRUE, <<Number(t)>>),
               Login(TRUE, <<Word, Word, Number(t)>>),
               Login(TRUE, <<Word, Word>>),
               [Login(TRUE, <<Word, Number(t)>>) EXCEPT !.account_id_parses = FALSE] }
GatewayRequests(t) ==
    { [ path |-> path, authorization |-> authorization, ip |-> "1.2.3.4",
        body |-> None, extensions |-> None ] :
          path \in Paths, authorization \in Authorizations }
    \cup
    { [ path |-> <<"api", "v1", "auth", "near-login">>, authorization |-> None,
        ip |-> "5.6.7.8", body |-> Some(body), extensions |-> None ] :
          body \in LoginBodies(t) }

\* The gateway starts with the repository; the build has overflow checks or
\* not.
InitGateway ==
    /\ contract = new(owner_id)
    /\ now = 0
    /\ agent = NodeDaemon_new(DEFAULT_MAX_CONCURRENT_TASKS)
    /\ \E overflow_checks \in BOOLEAN :
           gateway = AppState_new(Repository, overflow_checks, GatewayClock)

\* One request through the stack; last keeps the exchange.
GatewayRequest ==
    /\ gateway.served < MaxGatewayRequests
    /\ \E request \in GatewayRequests(gateway.clock) :
           LET served(answered) ==
                   [answered.g EXCEPT !.served = @ + 1,
                                      !.last = Some([ request  |-> request,
                                                      at       |-> gateway.clock,
                                                      response |-> answered.response ])]
           IN  gateway' = served(app(gateway, request, TRUE))
    /\ UNCHANGED <<contract, now, agent>>

NextGateway == GatewayRequest \/ GatewayAdvance

SpecGateway == InitGateway /\ [][NextGateway]_vars

\* The public routes as the claim lists them.
ListedPublic(path) ==
    \/ path \in {<<"health">>, <<"api", "v1", "network", "stats">>, <<"api", "v1", "nodes">>}
    \/ Len(path) = 4 /\ SubSeq(path, 1, 3) = <<"api", "v1", "auth">>
    \/ Len(path) = 4 /\ SubSeq(path, 1, 3) = <<"api", "v1", "nodes">>

\* The user a request's credential stands for at second t, if it has one: a
\* Bearer token that is signed and not expired, of a live key's user when it
\* is an API key and of the user it names otherwise.
PrincipalOf(request, t) ==
    LET token == request.authorization[1].token
        key == gateway.db.api_keys[token.key]
        id == IF token.token_type = "api_key" THEN key.user_id ELSE token.sub
    IN  IF request.authorization = None THEN None
        ELSE IF request.authorization[1].scheme # "Bearer" THEN None
        ELSE IF ~token.signed \/ token.expired THEN None
        ELSE IF /\ token.token_type = "api_key"
                /\ \/ token.key \notin DOMAIN gateway.db.api_keys
                   \/ ~key.is_active
                   \/ (key.expires_at # None /\ key.expires_at[1] <= t)
        THEN None
        ELSE IF id \notin DOMAIN gateway.db.users THEN None
        ELSE Some(gateway.db.users[id])

\* C21: the handler of a route that is not public runs only for a request
\* whose Bearer token verifies and stands for an existing active user (of a
\* live key when the token is an API key), and it is given that user; any
\* other request to such a route is answered 401, or 403 when the user is
\* inactive, and no handler runs.
GatewayAuthentication ==
    gateway.last # None =>
        LET request == gateway.last[1].request
            response == gateway.last[1].response
            principal == PrincipalOf(request, gateway.last[1].at)
        IN  (~ListedPublic(request.path) /\ route(request.path) # None) =>
                IF principal # None /\ principal[1].is_active
                THEN /\ gateway.ran # None
                     /\ gateway.ran[1].handler = route(request.path)[1]
                     /\ gateway.ran[1].principal # None
                     /\ gateway.ran[1].principal[1].user = principal[1]
                ELSE /\ gateway.ran = None
                     /\ response.status = IF principal # None THEN 403 ELSE 401

\* A request with a live API key has reached the handler of a protected
\* route, and it is the key's user the handler sees.
ApiKeyReachesHandler ==
    /\ gateway.last # None
    /\ gateway.ran # None
    /\ gateway.ran[1].handler = "tasks::cancel_task"
    /\ gateway.ran[1].principal # None
    /\ gateway.ran[1].principal[1].is_api_key
    /\ gateway.last[1].request.authorization[1].token.key = "k3"

\* C22 as stated: the handler of an admin route runs only for a principal
\* whose user is an administrator.
AdminGating ==
    (/\ gateway.ran # None
     /\ gateway.last # None
     /\ Len(gateway.last[1].request.path) > 3
     /\ SubSeq(gateway.last[1].request.path, 1, 3) = <<"api", "v1", "admin">>)
        => /\ gateway.ran[1].principal # None
           /\ gateway.ran[1].principal[1].user.is_admin

\* C23 as stated: a wallet login succeeds only if the signature verifies,
\* the message has two parts of which the second is a number of seconds, and
\* that number is within 300 s of the gateway's clock.
WalletLoginFreshness ==
    (/\ gateway.last # None
     /\ gateway.last[1].request.path = <<"api", "v1", "auth", "near-login">>
     /\ gateway.last[1].response.status = 200)
        => LET body == gateway.last[1].request.body[1]
               t == gateway.last[1].at
           IN  /\ body.signature_verifies
               /\ Len(body.message) = 2
               /\ body.message[2].numeric
               /\ t - body.message[2].value <= 300
               /\ body.message[2].value - t <= 300

\* ---- C31
\* Every task of s but those in `except` is in t where it was in s, active or
\* archived, with the assignee and the status it had, and the pending vector
\* is the same.
OtherTasksKept(s, t, except) ==
    /\ t.pending_tasks = s.pending_tasks
    /\ \A j \in ActiveIds(s) \ except :
          /\ j \in ActiveIds(t)
          /\ t.active_tasks[j].assignee = s.active_tasks[j].assignee
          /\ t.active_tasks[j].status = s.active_tasks[j].status
    /\ \A j \in ArchivedIds(s) :
          /\ j \in ArchivedIds(t)
          /\ t.completed_tasks[j].assignee = s.completed_tasks[j].assignee
          /\ t.completed_tasks[j].status = s.completed_tasks[j].status

NeverDispatches(outcomes) ==
    \A o \in outcomes :
        Returned(o) => /\ NewlyAssigned(contract, o.r.st) = {}
                       /\ OtherTasksKept(contract, o.r.st, {})

\* C31: one dispatch per operation: a successful submit_task or submit_result
\* moves at most one task from Pending to Assigned; register_node, heartbeat,
\* deactivate_node, timeout_task and the admin operations assign no task and
\* leave the pending vector and the assignee and status of every other task
\* as they were.
OneDispatchPerOperation ==
    /\ \A o \in SubmitTaskOutcomes :
          Returned(o) => Cardinality(NewlyAssigned(contract, o.r.st)) <= 1
    /\ \A o \in SubmitResultOutcomes :
          Returned(o) => Cardinality(NewlyAssigned(contract, o.r.st)) <= 1
    /\ NeverDispatches(RegisterOutcomes)
    /\ NeverDispatches(HeartbeatOutcomes)
    /\ NeverDispatches(DeactivateOutcomes)
    /\ NeverDispatches(AdminOutcomes)
    /\ NeverDispatches(PauseOutcomes)
    /\ \A o \in TimeoutOutcomes :
          Returned(o) => /\ NewlyAssigned(contract, o.r.st) = {}
                         /\ OtherTasksKept(contract, o.r.st, {o.task_id})

\* C31 witness: a task is timed out while another one waits and the node is
\* eligible once the timed-out task is gone; the waiting task stays pending.
TimeoutLeavesTheQueue ==
    \E o \in TimeoutOutcomes :
        /\ Returned(o)
        /\ Len(contract.pending_tasks) > 0
        /\ get_available_node(o.r.st, now) # None
        /\ o.r.st.pending_tasks = contract.pending_tasks

\* ---- C32
\* The calls of call i's principal that the primary store allowed in the 60
\* seconds that start with call i.
AllowedInWindow(i) ==
    { j \in PrimaryCalls :
          /\ gateway.log[j].identifier = gateway.log[i].identifier
          /\ gateway.log[j].at >= gateway.log[i].at
          /\ gateway.log[j].at < gateway.log[i].at + 60
          /\ Allowed(j) }

\* C32 as stated: burst containment on the primary path: for every principal
\* and every sliding window of 60 seconds, at most burst_limit calls are
\* allowed, several calls within one second included.
BurstContainment ==
    \A i \in PrimaryCalls :
        Cardinality(AllowedInWindow(i)) <= gateway.config.burst_limit

\* ---- C33
\* The principals the limiter has counted so far.
CountedPrincipals == { key[1] : key \in DOMAIN gateway.redis.counters }

\* C33 as stated, for the first request the gateway serves: authentication
\* runs before the rate-limit check, so a request authentication refuses is
\* not counted; a request to a protected route with a valid credential of an
\* active user is counted under user:<id> with the limits of the user's
\* tier; and any other request is counted under ip:<addr> with the ip tier.
PipelineOrder ==
    gateway.served = 1 =>
        LET request == gateway.last[1].request
            response == gateway.last[1].response
            principal == PrincipalOf(request, gateway.last[1].at)
            authenticated == /\ ~ListedPublic(request.path)
                             /\ route(request.path) # None
                             /\ principal # None
                             /\ principal[1].is_active
        IN  /\ response.status \in {401, 403} => CountedPrincipals = {}
            /\ authenticated =>
                  /\ CountedPrincipals = { <<"user", principal[1].id>> }
                  /\ response.headers["X-RateLimit-Limit"] =
                        get_user_tier_config(principal[1].tier).requests_per_minute
            /\ (~authenticated /\ response.status \notin {401, 403}) =>
                  /\ CountedPrincipals = { <<"ip", request.ip>> }
                  /\ response.headers["X-RateLimit-Limit"] =
                        get_ip_rate_limit_config.requests_per_minute

\* ---- C34
\* The calls the limiter's memory store answered, and those of call i's
\* principal among them that it allowed in the secs seconds that start with
\* call i.
FallbackCalls == { i \in DOMAIN gateway.log : gateway.log[i].path = "fallback" }
FallbackAllowed(i, secs) ==
    { j \in FallbackCalls :
          /\ gateway.log[j].identifier = gateway.log[i].identifier
          /\ gateway.log[j].at >= gateway.log[i].at
          /\ gateway.log[j].at < gateway.log[i].at + secs
          /\ Allowed(j) }

\* C34 as stated: while the primary store is unreachable, for every
\* principal at most requests_per_minute calls are allowed within any 60
\* seconds and at most requests_per_hour within any hour.
FallbackLimiting ==
    PrimaryCalls = {} =>
        \A i \in FallbackCalls :
            /\ Cardinality(FallbackAllowed(i, 60)) <= gateway.config.requests_per_minute
            /\ Cardinality(FallbackAllowed(i, 3600)) <= gateway.config.requests_per_hour

\* ------------------------------------------------------------ the heartbeat loop
\* HeartbeatManager::start in its own task, with max_retries as the daemon
\* sets it (3) and as the builder can set it.
MaxRetriesValues == {1, 2, HEARTBEAT_MAX_RETRIES}

InitHeartbeat ==
    /\ contract = new(owner_id)
    /\ now = 0
    /\ gateway = AppState_new(Repository, TRUE, GatewayClock)
    /\ \E retries \in MaxRetriesValues :
           agent = HeartbeatManager_start(with_max_retries(HeartbeatManager_new, retries))

\* interval.tick() returns.
HeartbeatTick ==
    /\ agent.pc = "tick"
    /\ agent' = [agent EXCEPT !.pc = "send"]
    /\ UNCHANGED <<contract, now, gateway>>

\* send_heartbeat returns: Ok when the transaction succeeded, Err when the
\* call or the transaction failed.
HeartbeatSend ==
    /\ agent.pc = "send"
    /\ \E sent \in IF agent.rpc_up THEN {TRUE} ELSE BOOLEAN :
           agent' = [agent EXCEPT !.pc = IF sent THEN "ok" ELSE "err"]
    /\ UNCHANGED <<contract, now, gateway>>

HeartbeatOk ==
    /\ agent.pc = "ok"
    /\ agent' = on_heartbeat_ok(agent)
    /\ UNCHANGED <<contract, now, gateway>>

HeartbeatErr ==
    /\ agent.pc = "err"
    /\ agent' = on_heartbeat_err(agent)
    /\ UNCHANGED <<contract, now, gateway>>

HeartbeatCooldown ==
    /\ agent.pc = "cooldown"
    /\ agent' = after_cooldown(agent)
    /\ UNCHANGED <<contract, now, gateway>>

\* The network and the coordinator recover: heartbeat calls succeed from now
\* on.
RpcRecovers ==
    /\ ~agent.rpc_up
    /\ agent' = [agent EXCEPT !.rpc_up = TRUE]
    /\ UNCHANGED <<contract, now, gateway>>

HeartbeatLoopStep ==
    \/ HeartbeatTick
    \/ HeartbeatSend
    \/ HeartbeatOk
    \/ HeartbeatErr
    \/ HeartbeatCooldown

NextHeartbeat == HeartbeatLoopStep \/ RpcRecovers

SpecHeartbeat == InitHeartbeat /\ [][NextHeartbeat]_vars

\* The runtime keeps running the spawned task and its timers fire: a step of
\* the loop that can be taken is taken. Nothing makes the network recover.
SpecHeartbeatFair == SpecHeartbeat /\ WF_vars(HeartbeatLoopStep)

\* ---- C35
\* C35: the heartbeat loop never returns and always comes back to its tick,
\* whatever the heartbeat calls answer; the consecutive-failure counter is
\* between 0 and max_retries - 1 at every tick; a successful heartbeat leaves
\* it at 0; when a failure brings it to max_retries the loop sleeps twice the
\* interval and resets it to 0; and once the heartbeat calls succeed for
\* good, a successful heartbeat is eventually sent.
HeartbeatLoop ==
    /\ [](agent.pc # "done")
    /\ []<>(agent.pc = "tick")
    /\ [](agent.pc = "tick" =>
              agent.consecutive_failures \in 0 .. (agent.manager.max_retries - 1))
    /\ [][(agent.pc = "ok" /\ agent'.pc # "ok") => agent'.consecutive_failures = 0]_vars
    /\ [][(/\ agent.pc = "err" /\ agent'.pc # "err"
           /\ agent.consecutive_failures + 1 >= agent.manager.max_retries)
              => agent'.pc = "cooldown"]_vars
    /\ [][(agent.pc = "cooldown" /\ agent'.pc # "cooldown")
              => /\ agent'.slept = 2 * agent.manager.interval_seconds
                 /\ agent'.consecutive_failures = 0
                 /\ agent'.pc = "tick"]_vars
    /\ (agent.rpc_up ~> (agent.pc = "ok"))

\* C35 witness: the loop has cooled down for 120 s after three failures in a
\* row and, the calls succeeding again, has sent a heartbeat since.
BeatsAfterCooldown ==
    /\ agent.manager.max_retries = HEARTBEAT_MAX_RETRIES
    /\ agent.cooldowns > 0
    /\ agent.slept = 2 * HEARTBEAT_INTERVAL_SECONDS
    /\ agent.rpc_up
    /\ agent.pc = "ok"

\* ------------------------------------------------------------ the daemon's shutdown
\* NodeDaemon::start: the polling loop runs as a spawned task while start
\* waits in select! for ctrl_c. signalled: the ctrl_c arm has been taken.
\* exited: start and main have returned and the runtime is gone, and with it
\* the spawned tasks, dropped at the await they were suspended in.
NodeDaemon_start(max_concurrent_tasks) ==
    NodeDaemon_new(max_concurrent_tasks) @@ [signalled |-> FALSE, exited |-> FALSE]

InitShutdown ==
    /\ contract = new(owner_id)
    /\ now = 0
    /\ gateway = AppState_new(Repository, TRUE, GatewayClock)
    /\ \E n \in MaxConcurrentValues : agent = NodeDaemon_start(n)

\* A step of the polling task, which runs as long as the runtime does.
PollingTaskStep ==
    /\ ~agent.exited
    /\ NextAgent

\* ctrl_c resolves and select! takes its arm.
ShutdownSignal ==
    /\ ~agent.signalled
    /\ agent' = [agent EXCEPT !.signalled = TRUE]
    /\ UNCHANGED <<contract, now, gateway>>

\* start returns Ok(()), main returns, the runtime is dropped.
DaemonExit ==
    /\ agent.signalled
    /\ ~agent.exited
    /\ agent' = [agent EXCEPT !.exited = TRUE]
    /\ UNCHANGED <<contract, now, gateway>>

NextShutdown == PollingTaskStep \/ ShutdownSignal \/ DaemonExit

SpecShutdown == InitShutdown /\ [][NextShutdown]_vars

\* ---- C36
\* C36 as stated: after the shutdown signal no new job is started, and the
\* process does not exit while a job is in flight (its backend running or
\* its result being submitted).
GracefulShutdown ==
    /\ [][agent.signalled => ~(JobsInFlight(agent) = 0 /\ JobsInFlight(agent') = 1)]_vars
    /\ [](agent.exited => JobsInFlight(agent) = 0)

\* ------------------------------------------------------------ the health view
\* HealthStatus values around the thresholds of is_healthy and get_issues;
\* the two functions are applied to one of them.
HealthStatuses ==
    [ is_registered              : BOOLEAN,
      is_active                  : BOOLEAN,
      network_latency            : {100, 9999, 10000, 10001, 15000},
      last_heartbeat_age_seconds : {0, 60, 299, 300, 301, 600},
      reputation_score           : {30, 49, 50, 100} ]

InitHealth ==
    /\ contract = new(owner_id)
    /\ now = 0
    /\ gateway = AppState_new(Repository, TRUE, GatewayClock)
    /\ \E status \in HealthStatuses :
           agent = [status |-> status, healthy |-> None, issues |-> None]

HealthReport ==
    /\ agent.healthy = None
    /\ agent' = [agent EXCEPT !.healthy = Some(is_healthy(agent.status)),
                              !.issues = Some(get_issues(agent.status))]
    /\ UNCHANGED <<contract, now, gateway>>

NextHealth == HealthReport

SpecHealth == InitHealth /\ [][NextHealth]_vars

\* ---- C37
ReportedIssues == { agent.issues[1][i] : i \in DOMAIN agent.issues[1] }

\* C37 as stated: is_healthy() is true exactly when the node is registered
\* and active, its last heartbeat is less than 300 s old and the latency is
\* below 10 s; it is false exactly when get_issues() has one of NotRegistered,
\* Inactive, StaleHeartbeat, HighLatency; and LowReputation is reported
\* exactly when the reputation is below 50, without effect on is_healthy().
HealthViewConsistency ==
    agent.healthy # None =>
        /\ agent.healthy[1] <=> (/\ agent.status.is_registered
                                 /\ agent.status.is_active
                                 /\ agent.status.last_heartbeat_age_seconds < 300
                                 /\ agent.status.network_latency < 10000)
        /\ ~agent.healthy[1] <=>
               (ReportedIssues \cap {"NotRegistered", "Inactive",
                                     "StaleHeartbeat", "HighLatency"} # {})
        /\ ("LowReputation" \in ReportedIssues) <=> (agent.status.reputation_score < 50)

\* ---- C38
\* The amount a call's outcome transfers.
Refunded(r) == IF r.promise = None THEN 0 ELSE r.promise[1].amount

\* C38 as stated: once deactivate_node has succeeded for a node, a later
\* heartbeat of the node does not make it active again, and a later
\* deactivate_node of the node, after the heartbeat or without it, does not
\* bring the total transferred back to the node above the stake it attached.
StakeRefundedOnce ==
    \A o \in DeactivateOutcomes :
        Returned(o) =>
            LET a == o.env.predecessor
                beat == heartbeat(o.r.st, Env(a, 0, now, 0))
                again == deactivate_node(o.r.st, Env(a, ONE_YOCTO, now, 0))
                after_beat == deactivate_node(beat.st, Env(a, ONE_YOCTO, now, 0))
            IN  /\ beat.err = "ok" => ~beat.st.nodes[a].is_active
                /\ again.err = "ok" =>
                      Refunded(o.r) + Refunded(again) <= contract.nodes[a].stake
                /\ (beat.err = "ok" /\ after_beat.err = "ok") =>
                      Refunded(o.r) + Refunded(after_beat) <= contract.nodes[a].stake

\* ---- C39
\* Every task pending in the current state is, after the outcome o, still an
\* active task and not an archived one, with the record it had or with that
\* record assigned to a node.
KeepsPending(o) ==
    \A j \in PendingIds(contract) :
        /\ j \in ActiveIds(o.r.st)
        /\ j \notin ArchivedIds(o.r.st)
        /\ \/ o.r.st.active_tasks[j] = contract.active_tasks[j]
           \/ \E n \in DOMAIN contract.nodes :
                 o.r.st.active_tasks[j] =
                     [contract.active_tasks[j] EXCEPT
                         !.status = "Assigned",
                         !.assignee = Some(n),
                         !.assigned_at = Some(o.env.now),
                         !.timeout_at = Some(o.env.now + contract.task_timeout_duration)]
PendingKept(outcomes) == \A o \in outcomes : Returned(o) => KeepsPending(o)
NothingTransferred(outcomes) == \A o \in outcomes : Returned(o) => o.r.promise = None

\* No successful call of the current state touches a pending task other than
\* by assigning it; timeout_task and submit_result on a pending task fail;
\* and no call but deactivate_node (the node's stake), timeout_task (of a
\* task that is not pending) and emergency_withdraw (to the owner) transfers
\* anything.
PendingUntouched ==
    /\ PendingKept(RegisterOutcomes) /\ NothingTransferred(RegisterOutcomes)
    /\ PendingKept(HeartbeatOutcomes) /\ NothingTransferred(HeartbeatOutcomes)
    /\ PendingKept(SubmitTaskOutcomes) /\ NothingTransferred(SubmitTaskOutcomes)
    /\ PendingKept(SubmitResultOutcomes) /\ NothingTransferred(SubmitResultOutcomes)
    /\ PendingKept(TransferOutcomes) /\ NothingTransferred(TransferOutcomes)
    /\ PendingKept(AdminOutcomes) /\ NothingTransferred(AdminOutcomes)
    /\ PendingKept(DeactivateOutcomes)
    /\ PendingKept(TimeoutOutcomes)
    /\ PendingKept(PauseOutcomes)
    /\ \A o \in DeactivateOutcomes :
          Returned(o) /\ o.r.promise # None => o.r.promise[1].receiver = o.env.predecessor
    /\ \A o \in PauseOutcomes :
          Returned(o) /\ o.r.promise # None => o.r.promise[1].receiver = contract.owner_id
    /\ \A o \in TimeoutOutcomes :
          o.task_id \in PendingIds(contract) =>
              /\ o.r.err \in {"Task not active", "Exactly 1 yoctoNEAR required for security"}
              /\ o.r.promise = None
    /\ \A o \in SubmitResultOutcomes :
          o.task_id \in PendingIds(contract) => Panicked(o)

\* C39: a pending task changes only by being assigned by the scheduler: no
\* operation archives it, removes it or refunds it, and timeout_task on it
\* fails; and a step taken while no node is live leaves every pending task
\* pending, with its record as it was.
PendingOnlyAssigned ==
    /\ []PendingUntouched
    /\ [][(\A n \in DOMAIN contract.nodes : ~LiveAt(contract, n, now))
             => \A j \in PendingIds(contract) :
                   /\ j \in PendingIds(contract')
                   /\ contract'.active_tasks[j] = contract.active_tasks[j]]_vars

\* C39 witness: a task is pending while the registered node is not live, and
\* timeout_task on it, with the yocto attached, is refused as not active.
PendingOutlivesItsTimeout ==
    \E o \in TimeoutOutcomes :
        /\ o.task_id \in PendingIds(contract)
        /\ o.env.deposit = ONE_YOCTO
        /\ o.r.err = "Task not active"
        /\ DOMAIN contract.nodes # {}
        /\ \A n \in DOMAIN contract.nodes : ~LiveAt(contract, n, now)

\* ------------------------------------------------------------ the polling rounds
\* The polling loop against a coordinator that answers as the coordinator
\* does: a response lists a task once, and a task whose result was accepted
\* is archived and is not listed again. accepted keeps those tasks, and
\* runs counts for each task ID the calls of the AI backend, up to MaxRuns.
InitRounds ==
    /\ contract = new(owner_id)
    /\ now = 0
    /\ gateway = AppState_new(Repository, TRUE, GatewayClock)
    /\ \E n \in MaxConcurrentValues : agent = NodeDaemon_new(n) @@ [accepted |-> {},
                                                               runs |-> [id \in {0, 1} |-> 0]]

RoundsPoll ==
    /\ AgentPoll
    /\ \A i \in DOMAIN agent'.tasks :
          /\ agent'.tasks[i].id \notin agent.accepted
          /\ \A j \in DOMAIN agent'.tasks : agent'.tasks[j].id = agent'.tasks[i].id => j = i

\* execute_task, as in AgentExecute: the backend is called for a task that
\* passes validate_task.
RoundsExecute ==
    /\ agent.pc = "execute"
    /\ \E outcome \in BackendOutcomes :
          LET task == Head(agent.tasks)
              called == validate_task(task)
              done == /\ called
                      /\ IsSome(outcome)
                      /\ validate_execution_result(Unwrap(outcome)) = "ok"
              counted == IF called
                         THEN [agent EXCEPT !.runs[task.id] = Min(@ + 1, MaxRuns)]
                         ELSE agent
          IN  agent' = IF done
                       THEN [counted EXCEPT !.available_permits = @ + 1,
                                            !.locked = FALSE,
                                            !.result = outcome,
                                            !.pc = "submit"]
                       ELSE [counted EXCEPT !.available_permits = @ + 1,
                                            !.locked = FALSE,
                                            !.tasks = Tail(@),
                                            !.pc = "loop"]
    /\ UNCHANGED <<contract, now, gateway>>

\* near_client.submit_result, as in AgentSubmit; an accepted result archives
\* the task at the coordinator.
RoundsSubmit ==
    /\ agent.pc = "submit"
    /\ \E accepted \in BOOLEAN :
          agent' = [agent EXCEPT !.processed_count = IF accepted THEN @ + 1 ELSE @,
                                 !.accepted = IF accepted
                                              THEN @ \cup {Head(agent.tasks).id} ELSE @,
                                 !.result = None,
                                 !.tasks = Tail(@),
                                 !.pc = "loop"]
    /\ UNCHANGED <<contract, now, gateway>>

NextRounds ==
    \/ RoundsPoll
    \/ AgentNextTask
    \/ AgentAcquire
    \/ RoundsExecute
    \/ RoundsSubmit
    \/ AgentReturn

SpecRounds == InitRounds /\ [][NextRounds]_vars

====
